---- MODULE Spec2Model ----
(***************************************************************************)
(* Model of the libre2 native cache layer: the Pattern Cache (std map and  *)
(* TBB variants), the Deferred Cache, the eviction worker and the facade   *)
(* entry points that hand compiled patterns to callers.                    *)
(*                                                                         *)
(* Time is kept as ages: every cache entry stores how long ago its         *)
(* timestamp (last_access, entered_deferred) was taken, and Tick advances  *)
(* the steady clock by one unit.  A worker pass is short against the clock *)
(* unit: the clock does not advance inside a pass, so the `now` the worker *)
(* reads once per pass is the current time and now - timestamp = age.      *)
(***************************************************************************)
EXTENDS Integers, Sequences, FiniteSets, TLC

\* ------------------------------------------------------------------ bounds
NumThreads == 2      \* caller threads (each holds at most one handle)
NumKeys == 2         \* distinct compilable fingerprints
MaxCalls == 3        \* getOrCompile calls in one behaviour
MaxConfigEdits == 2  \* fields changed in one configuration document or record
MaxResultOps == 3    \* get and put calls made on the Result Cache
MaxFlagsSet == 1     \* boolean options set in one options object
NumControllers == 2  \* threads calling start, stop, clearAllCaches, getMetricsJSON, initCache
MaxWorkers == 3      \* worker threads started in one behaviour
MaxLifeCalls == 4    \* calls made on the eviction thread, the manager and the facade
MaxManagers == 2     \* cache managers created in one behaviour

\* ------------------------------------------------------------ configuration
pattern_cache_ttl_ms == 1
deferred_cache_ttl_ms == 2
pattern_cache_target_capacity_bytes == 1
pattern_cache_lru_batch_size == 2

Threads == 1..NumThreads
BadKey == 0                      \* a pattern text the engine rejects
Keys == 1..NumKeys               \* fingerprints of patterns that compile
Patterns == {BadKey} \cup Keys
Insts == 1..MaxCalls             \* identities of inserted RE2Pattern objects
NoInst == 0                      \* nullptr
NoEntry == [pattern |-> NoInst, age |-> 0]
None == 0                        \* nobody holds the exclusive lock
Worker == NumThreads + 1         \* lock owner id of the eviction worker

PatternAgeCap == pattern_cache_ttl_ms + 1
DeferredAgeCap == deferred_cache_ttl_ms + 1

Min(a, b) == IF a < b THEN a ELSE b

\* RE2::ok(): whether the engine accepts the pattern text
RegexOk(k) == k # BadKey

\* RE2::ProgramSize(), stored as approx_size_bytes at construction
ProgramSize(k) == k

VARIABLES
    std_cache,              \* std_cache_: key -> PatternCacheEntry (or NoEntry)
    std_total_size_bytes,   \* std_total_size_bytes_
    readers, writer,        \* std_mutex_: shared holders, exclusive holder
    deferred,               \* DeferredCache::cache_: key -> DeferredEntry
    deferred_total_size_bytes,
    refcount,               \* RE2Pattern::refcount of every inserted object
    instKey,                \* the fingerprint each inserted object was compiled for
    numInst,                \* objects inserted so far
    pc, arg, api, found,    \* per caller: position, requested key, entry point, iterator
    held, raw,              \* per caller: the handle it holds, and whether it is a raw pointer
    error_msg,              \* per caller: the error_msg out-parameter
    calls,                  \* getOrCompile calls started
    pcW,                    \* worker: position in its pass
    pm,                     \* PatternCacheMetrics (the manager's)
    dm,                     \* DeferredCacheMetrics (the manager's)
    lastEvict,              \* objects the current evict pass removed while referenced
    evictDeleted,           \* objects a Pattern Cache evict pass erased without transfer
    evicted,                \* the local `evicted` of the evict call in progress, then its return value
    tbb_cache,              \* tbb_cache_: key -> PatternCacheEntry (or NoEntry)
    tbb_total_size_bytes,   \* tbb_total_size_bytes_
    to_evict,               \* evictTBB: keys collected by the TTL scan
    candidates,             \* evictTBB: the sorted batch of the LRU loop
    current_size,           \* evictTBB: the local copy of the byte counter
    pattern_string,         \* makeKey: the pattern text both keys are made for
    options,                \* makeKey: two PatternOptions objects
    key,                    \* makeKey: the key made for each of them
    json_doc,               \* the JSON configuration document: keys present and their values
    config,                 \* the CacheConfig record last returned by fromJson or assigned to
    config_src,             \* the record toJson was called on
    cfg_stage,              \* where the configuration is: document, parsed, serialized, reparsed
    cfg_error,              \* what the last fromJson threw ("" when it returned)
    cfg_edits,              \* edits made to the document and the record
    result_enabled,         \* ResultCache: config_.pattern_result_cache_enabled
    using_tbb,              \* ResultCache: which of the two maps is in use
    result_entries,         \* ResultCache: the map in use, key -> entry
    result_total_size_bytes,\* ResultCache: the byte total of the map in use
    rm,                     \* PatternResultCacheMetrics
    result_log,             \* the get and put calls made so far, with what they returned
    pcR,                    \* ResultCache::evictTBB: position of the pass
    result_to_evict,        \* evictTBB: to_evict
    lru_keys,               \* evictTBB: the sorted batch not yet visited
    result_current_size,    \* evictTBB: current_size
    result_evicted,         \* ResultCache::evict: entries evicted by the pass
    auto_start,             \* CacheManager: config_.auto_start_eviction_thread
    running_,               \* EvictionThread::running_
    stop_requested_,        \* EvictionThread::stop_requested_
    thread_,                \* EvictionThread::thread_: the worker it owns, or NoThread
    loop,                   \* per worker: position in evictionLoop
    spawned,                \* workers made so far
    terminated,             \* std::terminate was called
    ctl, in_call,           \* per controller: position, and the call it is in
    joining,                \* per controller: the worker its join() waits for
    was_running,            \* per controller: isRunning() when its clearAllCaches began
    life_calls,             \* calls started by the controllers
    g_cache_manager,        \* the facade's manager pointer, or NoManager
    g_init_mutex,           \* holder of the facade's init mutex, or Unlocked
    mgr,                    \* per manager object: none, fresh, used, deleted
    init_result,            \* per controller: how its last initCache ended
    taken,                  \* per controller: what its shutdownCache exchanged out
    heap                    \* per RE2Pattern object: made by `new` in the facade, freed

vars == <<std_cache, std_total_size_bytes, readers, writer, deferred,
          deferred_total_size_bytes, refcount, instKey, numInst, pc, arg, api,
          found, held, raw, error_msg, calls, pcW, pm, dm, lastEvict,
          evictDeleted, evicted, tbb_cache, tbb_total_size_bytes, to_evict,
          candidates, current_size, pattern_string, options, key, json_doc,
          config, config_src, cfg_stage, cfg_error, cfg_edits, result_enabled,
          using_tbb, result_entries, result_total_size_bytes, rm, result_log,
          pcR, result_to_evict, lru_keys, result_current_size, result_evicted,
          auto_start, running_, stop_requested_, thread_, loop, spawned,
          terminated, ctl, in_call, joining, was_running, life_calls,
          g_cache_manager, g_init_mutex, mgr, init_result, taken, heap>>

\* ---------------------------------------------------------------- helpers
RECURSIVE SumOver(_, _)
SumOver(S, f) ==
    IF S = {} THEN 0
    ELSE LET x == CHOOSE y \in S : TRUE IN f[x] + SumOver(S \ {x}, f)

CachedKeys == {k \in Patterns : std_cache[k] # NoEntry}
DeferredKeys == {k \in Patterns : deferred[k].pattern # NoInst}
NoDeferred == [pattern |-> NoInst, age |-> 0, approx_size_bytes |-> 0]

TbbKeys == {k \in Patterns : tbb_cache[k] # NoEntry}

InPatternCache(i) ==
    \/ \E k \in CachedKeys : std_cache[k].pattern = i
    \/ \E k \in TbbKeys : tbb_cache[k].pattern = i
InDeferredCache(i) == \E k \in DeferredKeys : deferred[k].pattern = i

\* shared_ptr<RE2Pattern> owners: the two cache slots and every caller that
\* still holds the shared_ptr it was given (the facade drops it and keeps a
\* raw pointer)
SharedHolders(i) == {t \in Threads : held[t] = i /\ ~raw[t]}
Allocated(i) ==
    /\ i \in 1..numInst
    /\ (InPatternCache(i) \/ InDeferredCache(i) \/ SharedHolders(i) # {})
Destroyed(i) == i \in 1..numInst /\ ~Allocated(i)

PMInit == [hits |-> 0, misses |-> 0, compilation_errors |-> 0,
           ttl_evictions |-> 0, lru_evictions |-> 0,
           lru_evictions_bytes_freed |-> 0,
           ttl_entries_moved_to_deferred |-> 0,
           lru_entries_moved_to_deferred |-> 0,
           total_evictions |-> 0, total_bytes_freed |-> 0]
DMInit == [total_entries_added |-> 0,
           immediate_evictions |-> 0, immediate_evictions_bytes_freed |-> 0,
           forced_evictions |-> 0, forced_evictions_bytes_freed |-> 0,
           total_evictions |-> 0, total_bytes_freed |-> 0]

CacheInit ==
    /\ std_cache = [k \in Patterns |-> NoEntry]
    /\ std_total_size_bytes = 0
    /\ readers = {}
    /\ writer = None
    /\ deferred = [k \in Patterns |-> NoDeferred]
    /\ deferred_total_size_bytes = 0
    /\ refcount = [i \in Insts |-> 0]
    /\ instKey = [i \in Insts |-> BadKey]
    /\ numInst = 0
    /\ pc = [t \in Threads |-> "idle"]
    /\ arg = [t \in Threads |-> BadKey]
    /\ api = [t \in Threads |-> "cache"]
    /\ found = [t \in Threads |-> NoInst]
    /\ held = [t \in Threads |-> NoInst]
    /\ raw = [t \in Threads |-> FALSE]
    /\ error_msg = [t \in Threads |-> ""]
    /\ calls = 0
    /\ pcW = "idle"
    /\ pm = PMInit
    /\ dm = DMInit
    /\ lastEvict = {}
    /\ evictDeleted = {}
    /\ evicted = 0
    /\ tbb_cache = [k \in Patterns |-> NoEntry]
    /\ tbb_total_size_bytes = 0
    /\ to_evict = {}
    /\ candidates = <<>>
    /\ current_size = 0

\* ------------------------------------------------------------ configuration
\* A 64-bit word is kept as its signed high half, bit 31 and the 31 bits
\* below: value = hi * 2^32 + b31 * 2^31 + low.  size_t fields read the word
\* unsigned, millisecond counts read it signed.
Word(h, b, l) == [hi |-> h, b31 |-> b, low |-> l]
Small(n) == Word(0, 0, n)
Zero64 == Small(0)
WordHighs == {-1, 0, 1}
WordLows == {0, 1, 2, 2147483647}
Words == [hi : WordHighs, b31 : {0, 1}, low : WordLows]

\* signed comparison of two words
SLess(a, b) ==
    \/ a.hi < b.hi
    \/ a.hi = b.hi /\ a.b31 < b.b31
    \/ a.hi = b.hi /\ a.b31 = b.b31 /\ a.low < b.low
SLessEq(a, b) == a = b \/ SLess(a, b)

\* static_cast<int> of a JSON number, then std::chrono::milliseconds(int):
\* the low 32 bits, sign-extended
MsFromInt(w) == Word(IF w.b31 = 1 THEN -1 ELSE 0, w.b31, w.low)

\* static_cast<unsigned long> of a JSON number: the same 64 bits
SizeFromJson(w) == w

BoolFields == {"cache_enabled", "pattern_result_cache_enabled",
               "pattern_result_cache_use_tbb", "pattern_cache_use_tbb",
               "auto_start_eviction_thread"}
SizeFields == {"pattern_result_cache_target_capacity_bytes",
               "pattern_result_cache_string_threshold_bytes",
               "pattern_cache_target_capacity_bytes",
               "pattern_cache_lru_batch_size"}
MsFields == {"pattern_result_cache_ttl_ms", "pattern_cache_ttl_ms",
             "deferred_cache_ttl_ms", "eviction_check_interval_ms"}
ConfigFields == BoolFields \cup SizeFields \cup MsFields

\* A JSON number: its 64 bits and whether it is stored unsigned (a
\* non-negative literal, a size_t) or signed (a negative literal, a count()).
JsonNumber(w, u) == [w |-> w, u |-> u]
JsonLiterals == {JsonNumber(w, w.hi >= 0) : w \in Words}

\* The defaults fromJson passes to j.value()
DefaultConfig ==
    [f \in ConfigFields |->
        CASE f = "cache_enabled" -> TRUE
          [] f = "pattern_result_cache_enabled" -> TRUE
          [] f = "pattern_result_cache_target_capacity_bytes" -> Small(100 * 1024 * 1024)
          [] f = "pattern_result_cache_string_threshold_bytes" -> Small(10 * 1024)
          [] f = "pattern_result_cache_ttl_ms" -> Small(300000)
          [] f = "pattern_result_cache_use_tbb" -> FALSE
          [] f = "pattern_cache_target_capacity_bytes" -> Small(100 * 1024 * 1024)
          [] f = "pattern_cache_ttl_ms" -> Small(300000)
          [] f = "pattern_cache_use_tbb" -> FALSE
          [] f = "pattern_cache_lru_batch_size" -> Small(100)
          [] f = "deferred_cache_ttl_ms" -> Small(600000)
          [] f = "auto_start_eviction_thread" -> TRUE
          [] f = "eviction_check_interval_ms" -> Small(100)]

\* The empty document {} ; val is only read for the keys present.
EmptyDoc ==
    [keys |-> {},
     val |-> [f \in ConfigFields |->
                IF f \in BoolFields THEN DefaultConfig[f]
                ELSE JsonNumber(DefaultConfig[f], TRUE)]]

\* The assignments of CacheConfig::fromJson: j.value(key, default) converted
\* to the type of the default (bool, unsigned long, int).
ParseFields(doc) ==
    [f \in ConfigFields |->
        IF f \notin doc.keys THEN DefaultConfig[f]
        ELSE IF f \in BoolFields THEN doc.val[f]
        ELSE IF f \in SizeFields THEN SizeFromJson(doc.val[f].w)
        ELSE MsFromInt(doc.val[f].w)]

\* CacheConfig::validate: "" when it returns, else the exception message
validate(c) ==
    IF ~c["cache_enabled"] THEN ""
    ELSE IF /\ c["pattern_result_cache_enabled"]
            /\ c["pattern_result_cache_target_capacity_bytes"] = Zero64
         THEN "pattern_result_cache_target_capacity_bytes must be > 0 when enabled"
    ELSE IF /\ c["pattern_result_cache_enabled"]
            /\ c["pattern_result_cache_string_threshold_bytes"] = Zero64
         THEN "pattern_result_cache_string_threshold_bytes must be > 0"
    ELSE IF /\ c["pattern_result_cache_enabled"]
            /\ SLessEq(c["pattern_result_cache_ttl_ms"], Zero64)
         THEN "pattern_result_cache_ttl_ms must be > 0 when enabled"
    ELSE IF c["pattern_cache_target_capacity_bytes"] = Zero64
         THEN "pattern_cache_target_capacity_bytes must be > 0"
    ELSE IF SLessEq(c["pattern_cache_ttl_ms"], Zero64)
         THEN "pattern_cache_ttl_ms must be > 0"
    ELSE IF c["pattern_cache_lru_batch_size"] = Zero64
         THEN "pattern_cache_lru_batch_size must be > 0"
    ELSE IF SLessEq(c["deferred_cache_ttl_ms"], Zero64)
         THEN "deferred_cache_ttl_ms must be > 0"
    ELSE IF SLessEq(c["deferred_cache_ttl_ms"], c["pattern_cache_ttl_ms"])
         THEN "deferred_cache_ttl_ms must be > pattern_cache_ttl_ms (leak protection)"
    ELSE IF SLessEq(c["eviction_check_interval_ms"], Zero64)
         THEN "eviction_check_interval_ms must be > 0"
    ELSE ""

\* CacheConfig::toJson: every field is written; size_t goes out unsigned,
\* count() signed.
toJson(c) ==
    [keys |-> ConfigFields,
     val |-> [f \in ConfigFields |->
                IF f \in BoolFields THEN c[f]
                ELSE JsonNumber(c[f], f \in SizeFields)]]

configVars == <<json_doc, config, config_src, cfg_stage, cfg_error, cfg_edits>>

ConfigInit ==
    /\ json_doc = EmptyDoc
    /\ config = DefaultConfig
    /\ config_src = DefaultConfig
    /\ cfg_stage = "document"
    /\ cfg_error = ""
    /\ cfg_edits = 0

\* ------------------------------------------------------------ cache keys
\* 64-bit words are sets of bit positions: | is union, ^ is symmetric
\* difference, and 0 is the empty set.
Bits64 == 0..63
Xor(a, b) == (a \ b) \cup (b \ a)

\* The boolean fields of PatternOptions and the bit computeHash gives each
Flags == {"posix_syntax", "longest_match", "log_errors", "literal", "never_nl",
          "dot_nl", "never_capture", "case_sensitive", "perl_classes",
          "word_boundary", "one_line"}
FlagBit == [f \in Flags |->
    CASE f = "posix_syntax" -> 0  [] f = "longest_match" -> 1
      [] f = "log_errors" -> 2    [] f = "literal" -> 3
      [] f = "never_nl" -> 4      [] f = "dot_nl" -> 5
      [] f = "never_capture" -> 6 [] f = "case_sensitive" -> 7
      [] f = "perl_classes" -> 8  [] f = "word_boundary" -> 9
      [] f = "one_line" -> 10]
Utf8Bit == 11
MaxMemShift == 13
MaxMemMask == 0..31

\* PatternOptions::computeHash
computeHash(o) ==
    LET h == {FlagBit[f] : f \in o.flags}
             \cup (IF o.utf8 THEN {Utf8Bit} ELSE {})
             \cup {b + MaxMemShift : b \in o.max_mem \cap MaxMemMask}
    IN IF h = {} THEN {0} ELSE h

\* PatternOptions::hash: computed on first use, kept in cached_hash
hash(o) == IF o.cached_hash = {} THEN computeHash(o) ELSE o.cached_hash

\* hash::hashString: the first 64 bits of MurmurHash3_x64_128 of the text,
\* a fixed word per text
Texts == {"a", "b"}
hashString(p) ==
    IF p = "a" THEN {1, 5, 17, 40, 63}
    ELSE IF p = "b" THEN {0, 2, 33, 40}
    ELSE IF p = "bb" THEN {3, 8, 21, 34, 47, 62}
    ELSE {2, 9, 16, 30, 51}

\* PatternCache::makeKey
makeKey(p, o) == Xor(hashString(p), hash(o))

\* The option objects considered: at most MaxFlagsSet flags set, either
\* encoding, and max_mem built from 2^23 (the 8 MB default) and 2^32.
MaxMemBits == {23, 32}
DefaultMaxMem == {23}
OptionValues ==
    [flags : {F \in SUBSET Flags : Cardinality(F) <= MaxFlagsSet},
     utf8 : BOOLEAN,
     max_mem : SUBSET MaxMemBits,
     cached_hash : {{}}]
DefaultOptions == [flags |-> {"case_sensitive"}, utf8 |-> TRUE,
                   max_mem |-> DefaultMaxMem, cached_hash |-> {}]
NoKey == [made |-> FALSE, bits |-> {}]

\* ------------------------------------------------------------ result cache
\* The configuration the Result Cache is built with
pattern_result_cache_target_capacity_bytes == 64
pattern_result_cache_string_threshold_bytes == 2
pattern_result_cache_ttl_ms == 1
RESULT_CACHE_ENTRY_SIZE == 64
ResultAgeCap == pattern_result_cache_ttl_ms + 1

\* 64-bit addition, bit by bit from position i with carry c
RECURSIVE AddFrom(_, _, _, _)
AddFrom(a, b, i, c) ==
    IF i > 63 THEN {}
    ELSE LET n == (IF i \in a THEN 1 ELSE 0) + (IF i \in b THEN 1 ELSE 0) + c
         IN (IF n % 2 = 1 THEN {i} ELSE {}) \cup AddFrom(a, b, i + 1, n \div 2)
Add64(a, b) == AddFrom(a, b, 0, 0)
ShiftLeft(a, n) == {b + n : b \in {x \in a : x + n <= 63}}
ShiftRight(a, n) == {b - n : b \in {x \in a : x >= n}}

\* 0x9e3779b97f4a7c15
GoldenRatio == {0, 2, 4, 10, 11, 12, 13, 14, 17, 19, 22, 24, 25, 26, 27, 28, 29,
                30, 32, 35, 36, 37, 39, 40, 43, 44, 45, 46, 48, 49, 50, 52, 53,
                57, 58, 59, 60, 63}

\* ResultCache::makeKey
makeResultKey(pattern_hash, input_string) ==
    Xor(pattern_hash,
        Add64(Add64(Add64(hashString(input_string), GoldenRatio),
                    ShiftLeft(pattern_hash, 6)),
              ShiftRight(pattern_hash, 2)))

\* The calls considered: two pattern hashes (1 and 12345), an input as long
\* as the threshold and one a byte longer.
PatternHashes == {{0}, {0, 3, 4, 5, 12, 13}}
InputStrings == {"bb", "ccc"}
ResultKeyOf == [p \in PatternHashes, s \in InputStrings |-> makeResultKey(p, s)]
ResultKeys == {ResultKeyOf[p, s] : p \in PatternHashes, s \in InputStrings}

NoResult == [present |-> FALSE, match_result |-> FALSE, age |-> 0]
ResultCacheEntry(result) == [present |-> TRUE, match_result |-> result, age |-> 0]
RMInit == [hits |-> 0, misses |-> 0, get_errors |-> 0, put_errors |-> 0,
           inserts |-> 0, updates |-> 0, result_flips |-> 0,
           ttl_evictions |-> 0, lru_evictions |-> 0,
           lru_evictions_bytes_freed |-> 0, total_evictions |-> 0,
           total_bytes_freed |-> 0]

resultVars == <<result_enabled, using_tbb, result_entries, result_total_size_bytes,
                rm, result_log, pcR, result_to_evict, lru_keys,
                result_current_size, result_evicted>>

ResultInit ==
    /\ result_entries = [k \in ResultKeys |-> NoResult]
    /\ result_total_size_bytes = 0
    /\ rm = RMInit
    /\ result_log = <<>>
    /\ pcR = "idle"
    /\ result_to_evict = {}
    /\ lru_keys = <<>>
    /\ result_current_size = 0
    /\ result_evicted = 0

\* ------------------------------------------------ eviction thread, manager
\* Callers of start(), stop(), clearAllCaches() and getMetricsJSON().
Controllers == 1..NumControllers
\* Identities of the std::thread objects start() creates.
WorkerIds == 1..MaxWorkers
NoThread == 0                    \* thread_ == nullptr

\* Where a worker is in evictionLoop; "unborn" before its std::thread is
\* made, "done" once the function has returned, "joined" after join().
LoopPositions == {"unborn", "test", "result_evict", "result_snapshot",
                  "pattern_evict", "pattern_snapshot", "deferred_evict",
                  "deferred_snapshot", "sleep", "exit", "done", "joined"}

InLoop(w) == loop[w] \notin {"unborn", "done", "joined"}
InPass(w) == loop[w] \in {"result_evict", "result_snapshot", "pattern_evict",
                          "pattern_snapshot", "deferred_evict",
                          "deferred_snapshot"}
LiveWorkers == {w \in WorkerIds : InLoop(w)}

\* std::thread::joinable(): made and not yet joined.
Joinable(w) == w # NoThread /\ loop[w] \notin {"unborn", "joined"}

\* EvictionThread::isRunning
isRunning == running_

lifeVars == <<auto_start, running_, stop_requested_, thread_, loop, spawned,
              terminated, ctl, in_call, joining, was_running, life_calls>>

\* EvictionThread as constructed: no thread, both flags false.
ThreadInit ==
    /\ running_ = FALSE
    /\ stop_requested_ = FALSE
    /\ thread_ = NoThread
    /\ loop = [w \in WorkerIds |-> "unborn"]
    /\ spawned = 0
    /\ terminated = FALSE

ControlInit ==
    /\ ctl = [c \in Controllers |-> "idle"]
    /\ in_call = [c \in Controllers |-> "none"]
    /\ joining = [c \in Controllers |-> NoThread]
    /\ was_running = [c \in Controllers |-> FALSE]
    /\ life_calls = 0

\* An EvictionThread on its own, or a CacheManager built with
\* auto_start_eviction_thread off.
LifeInit ==
    /\ auto_start = FALSE
    /\ ThreadInit
    /\ ControlInit

\* CacheManager as constructed: with auto_start_eviction_thread on, the
\* constructor has called start() and the first worker is at the top of
\* its loop.
ManagerInit ==
    /\ auto_start \in BOOLEAN
    /\ ControlInit
    /\ IF auto_start
       THEN /\ running_ = TRUE
            /\ stop_requested_ = FALSE
            /\ thread_ = 1
            /\ loop = [w \in WorkerIds |-> IF w = 1 THEN "test" ELSE "unborn"]
            /\ spawned = 1
            /\ terminated = FALSE
       ELSE ThreadInit

\* The facade: g_cache_manager and the heap objects it has pointed to.
ManagerIds == 1..MaxManagers
NoManager == 0                   \* g_cache_manager == nullptr
Unlocked == 0                    \* nobody holds g_init_mutex

\* isCacheInitialized
isCacheInitialized == g_cache_manager # NoManager

facadeVars == <<g_cache_manager, g_init_mutex, mgr, init_result, taken, heap>>

\* what only the controllers and the workers they start touch
managerVars == <<lifeVars, facadeVars>>

FacadeInit ==
    /\ g_cache_manager = NoManager
    /\ g_init_mutex = Unlocked
    /\ mgr = [m \in ManagerIds |-> "none"]
    /\ init_result = [c \in Controllers |-> "none"]
    /\ taken = [c \in Controllers |-> NoManager]
    /\ heap = [i \in Insts |-> "none"]

keyVars == <<pattern_string, options, key>>

\* what the pattern cache and its worker never touch
offCacheVars == <<keyVars, configVars, resultVars, managerVars>>

Init ==
    /\ CacheInit
    /\ ConfigInit
    /\ ResultInit
    /\ LifeInit
    /\ FacadeInit
    /\ result_enabled = TRUE
    /\ using_tbb = FALSE
    /\ pattern_string = "a"
    /\ options = [n \in 1..2 |-> DefaultOptions]
    /\ key = [n \in 1..2 |-> NoKey]

\* Two option objects filled in by a caller, for the same pattern text.
KeyInit ==
    /\ CacheInit
    /\ ConfigInit
    /\ ResultInit
    /\ LifeInit
    /\ FacadeInit
    /\ result_enabled = TRUE
    /\ using_tbb = FALSE
    /\ pattern_string \in Texts
    /\ options \in [1..2 -> OptionValues]
    /\ key = [n \in 1..2 |-> NoKey]

\* A Result Cache built enabled or disabled, over either map.
InitResult ==
    /\ CacheInit
    /\ ConfigInit
    /\ ResultInit
    /\ LifeInit
    /\ FacadeInit
    /\ result_enabled \in BOOLEAN
    /\ using_tbb \in BOOLEAN
    /\ pattern_string = "a"
    /\ options = [n \in 1..2 |-> DefaultOptions]
    /\ key = [n \in 1..2 |-> NoKey]

cacheVars == <<std_cache, std_total_size_bytes, readers, writer, deferred,
               deferred_total_size_bytes, refcount, instKey, numInst, pc, arg,
               api, found, held, raw, error_msg, calls, pcW, pm, dm, lastEvict,
               evictDeleted, evicted, tbb_cache, tbb_total_size_bytes,
               to_evict, candidates, current_size>>

\* PatternOptions::hash() called on its own, before any key is made: the
\* lazy cached_hash is filled.
Hash(n) ==
    /\ options[n].cached_hash = {}
    /\ options' = [options EXCEPT ![n].cached_hash = hash(options[n])]
    /\ UNCHANGED <<pattern_string, key>>
    /\ UNCHANGED cacheVars /\ UNCHANGED managerVars /\ UNCHANGED configVars /\ UNCHANGED resultVars

\* getOrCompile computes the key for the n-th options object.
MakeKey(n) ==
    /\ ~key[n].made
    /\ key' = [key EXCEPT ![n] = [made |-> TRUE,
                                  bits |-> makeKey(pattern_string, options[n])]]
    /\ options' = [options EXCEPT ![n].cached_hash = hash(options[n])]
    /\ UNCHANGED pattern_string
    /\ UNCHANGED cacheVars /\ UNCHANGED managerVars /\ UNCHANGED configVars /\ UNCHANGED resultVars

NextKey == \/ \E n \in 1..2 : Hash(n)
           \/ \E n \in 1..2 : MakeKey(n)

SpecKey == KeyInit /\ [][NextKey]_vars

\* ---------------------------------------------------- configuration: steps
\* The caller writes one key of the document.
EditDoc ==
    /\ cfg_stage = "document"
    /\ cfg_edits < MaxConfigEdits
    /\ \E f \in ConfigFields :
         \E v \in (IF f \in BoolFields THEN BOOLEAN ELSE JsonLiterals) :
            json_doc' = [keys |-> json_doc.keys \cup {f},
                         val |-> [json_doc.val EXCEPT ![f] = v]]
    /\ cfg_edits' = cfg_edits + 1
    /\ UNCHANGED <<config, config_src, cfg_stage, cfg_error>>
    /\ UNCHANGED cacheVars /\ UNCHANGED managerVars /\ UNCHANGED keyVars /\ UNCHANGED resultVars

\* CacheConfig::fromJson on the document: the record is returned only when
\* validate() does not throw.
FromJson ==
    /\ cfg_stage \in {"document", "serialized"}
    /\ LET c == ParseFields(json_doc)
       IN /\ cfg_error' = validate(c)
          /\ config' = IF validate(c) = "" THEN c ELSE config
    /\ cfg_stage' = IF cfg_stage = "document" THEN "parsed" ELSE "reparsed"
    /\ UNCHANGED <<json_doc, config_src, cfg_edits>>
    /\ UNCHANGED cacheVars /\ UNCHANGED managerVars /\ UNCHANGED keyVars /\ UNCHANGED resultVars

\* The struct's fields are public: a caller holding a record assigns to one.
AssignField ==
    /\ cfg_stage = "parsed" /\ cfg_error = ""
    /\ cfg_edits < MaxConfigEdits
    /\ \E f \in ConfigFields :
         \E v \in (IF f \in BoolFields THEN BOOLEAN ELSE Words) :
            config' = [config EXCEPT ![f] = v]
    /\ cfg_edits' = cfg_edits + 1
    /\ UNCHANGED <<json_doc, config_src, cfg_stage, cfg_error>>
    /\ UNCHANGED cacheVars /\ UNCHANGED managerVars /\ UNCHANGED keyVars /\ UNCHANGED resultVars

\* CacheConfig::toJson on the record held.
ToJson ==
    /\ cfg_stage = "parsed" /\ cfg_error = ""
    /\ json_doc' = toJson(config)
    /\ config_src' = config
    /\ cfg_stage' = "serialized"
    /\ UNCHANGED <<config, cfg_error, cfg_edits>>
    /\ UNCHANGED cacheVars /\ UNCHANGED managerVars /\ UNCHANGED keyVars /\ UNCHANGED resultVars

NextConfig == EditDoc \/ FromJson \/ AssignField \/ ToJson

SpecConfig == Init /\ [][NextConfig]_vars

\* ------------------------------------------------------ result cache: steps
ResultPresent == {k \in ResultKeys : result_entries[k].present}
Logged(op, ph, s, v, ret) ==
    Append(result_log, [op |-> op, pattern_hash |-> ph, input_string |-> s,
                        match_result |-> v, ret |-> ret])
Optional(e) == IF ~e.present THEN "nullopt" ELSE IF e.match_result THEN "true" ELSE "false"
evictorVars == <<pcR, result_to_evict, lru_keys, result_current_size, result_evicted>>

\* ResultCache::get and ResultCache::put return at once on a disabled cache
NeverDisabled == FALSE
ResultCacheDisabled == ~result_enabled

\* ResultCache::put skips an input longer than the threshold
AtOrOverThreshold(input_string) == Len(input_string) >= pattern_result_cache_string_threshold_bytes
OverThreshold(input_string) == Len(input_string) > pattern_result_cache_string_threshold_bytes

\* putStd / putTBB on a key already present: the result and last_access are
\* written
KeepResult(e, match_result) == [e EXCEPT !.age = 0]
UpdateEntry(e, match_result) == [e EXCEPT !.match_result = match_result, !.age = 0]

\* ResultCache::get, getStd (under the shared lock) or getTBB (under the
\* element's accessor)
Get(ph, s) ==
    /\ Len(result_log) < MaxResultOps
    /\ LET k == ResultKeyOf[ph, s]
           e == result_entries[k]
       IN IF ResultCacheDisabled
          THEN /\ result_log' = Logged("get", ph, s, FALSE, "nullopt")
               /\ UNCHANGED <<result_entries, rm>>
          ELSE IF e.present
          THEN /\ result_entries' = [result_entries EXCEPT ![k].age = 0]
               /\ rm' = [rm EXCEPT !.hits = @ + 1]
               /\ result_log' = Logged("get", ph, s, FALSE, Optional(e))
          ELSE /\ rm' = [rm EXCEPT !.misses = @ + 1]
               /\ result_log' = Logged("get", ph, s, FALSE, "nullopt")
               /\ UNCHANGED result_entries
    /\ UNCHANGED <<result_enabled, using_tbb, result_total_size_bytes>>
    /\ UNCHANGED evictorVars
    /\ UNCHANGED cacheVars /\ UNCHANGED managerVars /\ UNCHANGED keyVars /\ UNCHANGED configVars

GetStd(ph, s) == ~using_tbb /\ Get(ph, s)

GetTBB(ph, s) == using_tbb /\ Get(ph, s)

\* ResultCache::put, putStd (under the exclusive lock) or putTBB (under the
\* element's accessor)
Put(ph, s, v) ==
    /\ Len(result_log) < MaxResultOps
    /\ result_log' = Logged("put", ph, s, v, "void")
    /\ LET k == ResultKeyOf[ph, s]
           e == result_entries[k]
       IN IF ResultCacheDisabled \/ OverThreshold(s)
          THEN UNCHANGED <<result_entries, result_total_size_bytes, rm>>
          ELSE IF e.present
          THEN /\ result_entries' = [result_entries EXCEPT ![k] = UpdateEntry(e, v)]
               /\ rm' = [rm EXCEPT !.updates = @ + 1,
                                   !.result_flips = IF e.match_result # v THEN @ + 1 ELSE @]
               /\ UNCHANGED result_total_size_bytes
          ELSE /\ result_entries' = [result_entries EXCEPT ![k] = ResultCacheEntry(v)]
               /\ result_total_size_bytes' = result_total_size_bytes + RESULT_CACHE_ENTRY_SIZE
               /\ rm' = [rm EXCEPT !.inserts = @ + 1]
    /\ UNCHANGED <<result_enabled, using_tbb>>
    /\ UNCHANGED evictorVars
    /\ UNCHANGED cacheVars /\ UNCHANGED managerVars /\ UNCHANGED keyVars /\ UNCHANGED configVars

PutStd(ph, s, v) == ~using_tbb /\ Put(ph, s, v)

PutTBB(ph, s, v) == using_tbb /\ Put(ph, s, v)

\* The keys a pass finds older than the TTL
ResultExpired == {k \in ResultPresent : result_entries[k].age > pattern_result_cache_ttl_ms}

\* The orders std::partial_sort can leave a set of keys in: oldest first
OldestFirst(K) ==
    {o \in [1..Cardinality(K) -> K] :
        /\ \A i, j \in 1..Cardinality(K) : i # j => o[i] # o[j]
        /\ \A i, j \in 1..Cardinality(K) :
              i < j => result_entries[o[i]].age >= result_entries[o[j]].age}

\* How many of the batch the LRU loop erases: it stops at the first erase
\* that brings the byte total to the target or below
ResultLruCount(n) ==
    LET over == result_total_size_bytes - n * RESULT_CACHE_ENTRY_SIZE
                    - pattern_result_cache_target_capacity_bytes
    IN IF over <= 0 THEN 0
       ELSE (over + RESULT_CACHE_ENTRY_SIZE - 1) \div RESULT_CACHE_ENTRY_SIZE

\* ResultCache::evictStd: the whole pass under the exclusive lock
EvictResultStd ==
    /\ ~using_tbb /\ pcR = "idle"
    /\ LET expired == ResultExpired
           kept == ResultPresent \ expired
       IN \E o \in OldestFirst(kept) :
            LET m == Min(ResultLruCount(Cardinality(expired)), Cardinality(kept))
                lru == {o[i] : i \in 1..m}
                gone == expired \cup lru
                freed(K) == Cardinality(K) * RESULT_CACHE_ENTRY_SIZE
            IN /\ result_entries' = [k \in ResultKeys |->
                                        IF k \in gone THEN NoResult ELSE result_entries[k]]
               /\ result_total_size_bytes' = result_total_size_bytes - freed(gone)
               /\ rm' = [rm EXCEPT !.ttl_evictions = @ + Cardinality(expired),
                                   !.lru_evictions = @ + m,
                                   !.lru_evictions_bytes_freed = @ + freed(lru),
                                   !.total_evictions = @ + Cardinality(gone),
                                   !.total_bytes_freed = @ + freed(gone)]
               /\ result_evicted' = Cardinality(gone)
    /\ UNCHANGED <<result_enabled, using_tbb, result_log, pcR, result_to_evict,
                   lru_keys, result_current_size>>
    /\ UNCHANGED cacheVars /\ UNCHANGED managerVars /\ UNCHANGED keyVars /\ UNCHANGED configVars

\* evictTBB, first loop: the keys older than the TTL are collected
CollectResultTBB ==
    /\ using_tbb /\ pcR = "idle"
    /\ result_to_evict' = ResultExpired
    /\ result_evicted' = 0
    /\ pcR' = "expire"
    /\ UNCHANGED <<result_enabled, using_tbb, result_entries, result_total_size_bytes,
                   rm, result_log, lru_keys, result_current_size>>
    /\ UNCHANGED cacheVars /\ UNCHANGED managerVars /\ UNCHANGED keyVars /\ UNCHANGED configVars

\* evictTBB, second loop: one collected key is looked up again and erased
ExpireResultTBB ==
    /\ pcR = "expire" /\ result_to_evict # {}
    /\ \E k \in result_to_evict :
         /\ result_to_evict' = result_to_evict \ {k}
         /\ IF result_entries[k].present
            THEN /\ result_entries' = [result_entries EXCEPT ![k] = NoResult]
                 /\ result_total_size_bytes' = result_total_size_bytes - RESULT_CACHE_ENTRY_SIZE
                 /\ rm' = [rm EXCEPT !.ttl_evictions = @ + 1,
                                     !.total_evictions = @ + 1,
                                     !.total_bytes_freed = @ + RESULT_CACHE_ENTRY_SIZE]
                 /\ result_evicted' = result_evicted + 1
            ELSE UNCHANGED <<result_entries, result_total_size_bytes, rm, result_evicted>>
    /\ UNCHANGED <<result_enabled, using_tbb, result_log, pcR, lru_keys, result_current_size>>
    /\ UNCHANGED cacheVars /\ UNCHANGED managerVars /\ UNCHANGED keyVars /\ UNCHANGED configVars

\* evictTBB: the byte total is loaded for the LRU loop
LoadSizeResultTBB ==
    /\ pcR = "expire" /\ result_to_evict = {}
    /\ result_current_size' = result_total_size_bytes
    /\ pcR' = "lru"
    /\ UNCHANGED <<result_enabled, using_tbb, result_entries, result_total_size_bytes,
                   rm, result_log, result_to_evict, lru_keys, result_evicted>>
    /\ UNCHANGED cacheVars /\ UNCHANGED managerVars /\ UNCHANGED keyVars /\ UNCHANGED configVars

\* evictTBB, LRU loop head: over the target the keys are collected and
\* sorted, otherwise the pass returns
SortResultTBB ==
    /\ pcR = "lru"
    /\ IF result_current_size > pattern_result_cache_target_capacity_bytes /\ ResultPresent # {}
       THEN /\ \E o \in OldestFirst(ResultPresent) : lru_keys' = o
            /\ pcR' = "lru_erase"
       ELSE /\ pcR' = "idle"
            /\ lru_keys' = <<>>
    /\ UNCHANGED <<result_enabled, using_tbb, result_entries, result_total_size_bytes,
                   rm, result_log, result_to_evict, result_current_size, result_evicted>>
    /\ UNCHANGED cacheVars /\ UNCHANGED managerVars /\ UNCHANGED keyVars /\ UNCHANGED configVars

\* evictTBB, LRU loop body: the next key of the batch is looked up again and
\* erased; the pass returns once the byte total is at the target or below
EraseLruResultTBB ==
    /\ pcR = "lru_erase"
    /\ IF lru_keys = <<>>
       THEN /\ pcR' = "lru"
            /\ UNCHANGED <<result_entries, result_total_size_bytes, rm, lru_keys,
                           result_current_size, result_evicted>>
       ELSE LET k == Head(lru_keys)
            IN IF result_entries[k].present
               THEN /\ result_entries' = [result_entries EXCEPT ![k] = NoResult]
                    /\ result_total_size_bytes' = result_total_size_bytes - RESULT_CACHE_ENTRY_SIZE
                    /\ rm' = [rm EXCEPT !.lru_evictions = @ + 1,
                                        !.lru_evictions_bytes_freed = @ + RESULT_CACHE_ENTRY_SIZE,
                                        !.total_evictions = @ + 1,
                                        !.total_bytes_freed = @ + RESULT_CACHE_ENTRY_SIZE]
                    /\ result_evicted' = result_evicted + 1
                    /\ result_current_size' = result_total_size_bytes'
                    /\ lru_keys' = Tail(lru_keys)
                    /\ pcR' = IF result_total_size_bytes' <= pattern_result_cache_target_capacity_bytes
                              THEN "idle" ELSE "lru_erase"
               ELSE /\ lru_keys' = Tail(lru_keys)
                    /\ UNCHANGED <<result_entries, result_total_size_bytes, rm, pcR,
                                   result_current_size, result_evicted>>
    /\ UNCHANGED <<result_enabled, using_tbb, result_log, result_to_evict>>
    /\ UNCHANGED cacheVars /\ UNCHANGED managerVars /\ UNCHANGED keyVars /\ UNCHANGED configVars

\* The clock advances between passes.
ResultTick ==
    /\ pcR = "idle"
    /\ \E k \in ResultPresent : result_entries[k].age < ResultAgeCap
    /\ result_entries' = [k \in ResultKeys |->
                            IF result_entries[k].present
                            THEN [result_entries[k] EXCEPT !.age = Min(@ + 1, ResultAgeCap)]
                            ELSE result_entries[k]]
    /\ UNCHANGED <<result_enabled, using_tbb, result_total_size_bytes, rm, result_log>>
    /\ UNCHANGED evictorVars
    /\ UNCHANGED cacheVars /\ UNCHANGED managerVars /\ UNCHANGED keyVars /\ UNCHANGED configVars

NextResult ==
    \/ \E ph \in PatternHashes, s \in InputStrings : GetStd(ph, s)
    \/ \E ph \in PatternHashes, s \in InputStrings : GetTBB(ph, s)
    \/ \E ph \in PatternHashes, s \in InputStrings, v \in BOOLEAN : PutStd(ph, s, v)
    \/ \E ph \in PatternHashes, s \in InputStrings, v \in BOOLEAN : PutTBB(ph, s, v)
    \/ EvictResultStd
    \/ CollectResultTBB
    \/ ExpireResultTBB
    \/ LoadSizeResultTBB
    \/ SortResultTBB
    \/ EraseLruResultTBB
    \/ ResultTick

SpecResult == InitResult /\ [][NextResult]_vars

\* ------------------------------------------------------- caller: getOrCompile
callerVars == <<pc, arg, api, found, held, raw, error_msg, calls>>
workerVars == <<pcW, lastEvict, evictDeleted, evicted>>
deferredVars == <<deferred, deferred_total_size_bytes, dm>>
stdVars == <<std_cache, std_total_size_bytes, readers, writer>>
tbbVars == <<tbb_cache, tbb_total_size_bytes, to_evict, candidates, current_size>>

\* The facade passes a local PatternCacheMetrics that is thrown away; only
\* direct callers of PatternCache::getOrCompile update the manager's metrics.
\* (mutation) a caller's counter update is lost
CountDropped(t, field) == pm

Count(t, field) ==
    IF api[t] = "cache" THEN [pm EXCEPT ![field] = @ + 1] ELSE pm

\* (mutation) the shared lock is dropped right after find
HitLockDropped(t) == readers

\* The scope of the shared_lock taken for the lookup: it is still held when
\* the hit path increments the refcount.
HitLockScope(t) == readers \cup {t}

\* (mutation) the shared lock is kept across the compile
MissLockKept(t) == readers \cup {t}

\* On a miss the lookup block is left before anything else happens, and its
\* shared_lock is released with it.
MissLockScope(t) == readers

\* First block of getOrCompileStd: lock shared, find.  A miss leaves the
\* block (releasing the lock) and counts the miss.
LookupStd(t, k, a) ==
    /\ pc[t] = "idle" /\ held[t] = NoInst
    /\ calls < MaxCalls
    /\ writer = None
    /\ calls' = calls + 1
    /\ arg' = [arg EXCEPT ![t] = k]
    /\ api' = [api EXCEPT ![t] = a]
    /\ error_msg' = [error_msg EXCEPT ![t] = ""]
    /\ IF std_cache[k] # NoEntry
       THEN /\ found' = [found EXCEPT ![t] = std_cache[k].pattern]
            /\ readers' = HitLockScope(t)
            /\ pc' = [pc EXCEPT ![t] = "found"]
            /\ pm' = pm
       ELSE /\ found' = [found EXCEPT ![t] = NoInst]
            /\ readers' = MissLockScope(t)
            /\ pc' = [pc EXCEPT ![t] = "compile"]
            /\ pm' = IF a = "cache" THEN [pm EXCEPT !.misses = @ + 1] ELSE pm
    /\ UNCHANGED <<std_cache, std_total_size_bytes, writer, refcount, instKey,
                   numInst, held, raw>>
    /\ UNCHANGED deferredVars /\ UNCHANGED workerVars
    /\ UNCHANGED tbbVars
    /\ UNCHANGED offCacheVars

\* Cache hit: refcount.fetch_add(1), last_access = now, hits++, return the
\* shared_ptr; the lock is released on return.
HitStd(t) ==
    /\ pc[t] = "found"
    /\ refcount' = [refcount EXCEPT ![found[t]] = @ + 1]
    /\ std_cache' = IF std_cache[arg[t]].pattern = found[t]
                    THEN [std_cache EXCEPT ![arg[t]].age = 0]
                    ELSE std_cache
    /\ pm' = Count(t, "hits")
    /\ held' = [held EXCEPT ![t] = found[t]]
    /\ raw' = [raw EXCEPT ![t] = (api[t] = "facade")]
    /\ found' = [found EXCEPT ![t] = NoInst]
    /\ readers' = readers \ {t}
    /\ pc' = [pc EXCEPT ![t] = "idle"]
    /\ arg' = [arg EXCEPT ![t] = BadKey]
    /\ api' = [api EXCEPT ![t] = "cache"]
    /\ UNCHANGED <<std_total_size_bytes, writer, instKey, numInst,
                   error_msg, calls>>
    /\ UNCHANGED deferredVars /\ UNCHANGED workerVars
    /\ UNCHANGED tbbVars
    /\ UNCHANGED offCacheVars

\* What a failed compile leaves in the cache map: nothing is inserted.
AfterCompileError(t) == std_cache

\* (mutation) the error return forgets its counter
CountCompileErrorDropped(t) == pm

\* metrics.compilation_errors.fetch_add(1) on the error return
CountCompileError(t) == Count(t, "compilation_errors")

\* PatternCache::compilePattern with no lock held, and the error return of
\* getOrCompileStd.
CompileStd(t) ==
    /\ pc[t] = "compile"
    /\ IF RegexOk(arg[t])
       THEN /\ pc' = [pc EXCEPT ![t] = "insert"]
            /\ UNCHANGED <<error_msg, pm, std_cache, arg, api>>
       ELSE /\ error_msg' = [error_msg EXCEPT ![t] = "error"]
            /\ pm' = CountCompileError(t)
            /\ std_cache' = AfterCompileError(t)
            /\ pc' = [pc EXCEPT ![t] = "idle"]
            /\ arg' = [arg EXCEPT ![t] = BadKey]
            /\ api' = [api EXCEPT ![t] = "cache"]
    /\ UNCHANGED <<std_total_size_bytes, readers, writer, refcount, instKey,
                   numInst, found, held, raw, calls>>
    /\ UNCHANGED deferredVars /\ UNCHANGED workerVars
    /\ UNCHANGED tbbVars
    /\ UNCHANGED offCacheVars

\* (mutation) the cache slot counts as a reference of its own
InitialRefcountWithSlot == 1 + 1

\* The refcount a freshly inserted pattern starts with.
InitialRefcount == 1

\* (mutation) the insert block does not look the key up again
DoubleCheckSkipped(t) == FALSE

\* The double-check under the exclusive lock: did another thread insert the
\* key while this one was compiling?
DoubleCheckFinds(t) == std_cache[arg[t]] # NoEntry

\* Second block of getOrCompileStd: lock exclusive, double-check, insert.
\* emplace leaves an existing entry alone and only a real insertion adds to
\* the byte counter; the caller gets its own pattern either way.
InsertStd(t) ==
    /\ pc[t] = "insert"
    /\ writer = None /\ readers = {}
    /\ IF DoubleCheckFinds(t)
       THEN \* another thread inserted it: use theirs, discard ours
            LET i == std_cache[arg[t]].pattern IN
            /\ refcount' = [refcount EXCEPT ![i] = @ + 1]
            /\ std_cache' = [std_cache EXCEPT ![arg[t]].age = 0]
            /\ held' = [held EXCEPT ![t] = i]
            /\ UNCHANGED <<std_total_size_bytes, instKey, numInst>>
       ELSE LET i == numInst + 1
                inserted == std_cache[arg[t]] = NoEntry
            IN
            /\ numInst' = i
            /\ instKey' = [instKey EXCEPT ![i] = arg[t]]
            /\ refcount' = [refcount EXCEPT ![i] = InitialRefcount]
            /\ std_cache' = IF inserted
                            THEN [std_cache EXCEPT ![arg[t]] = [pattern |-> i, age |-> 0]]
                            ELSE std_cache
            /\ std_total_size_bytes' = IF inserted
                                       THEN std_total_size_bytes + ProgramSize(arg[t])
                                       ELSE std_total_size_bytes
            /\ held' = [held EXCEPT ![t] = i]
    /\ raw' = [raw EXCEPT ![t] = (api[t] = "facade")]
    /\ pc' = [pc EXCEPT ![t] = "idle"]
    /\ arg' = [arg EXCEPT ![t] = BadKey]
    /\ api' = [api EXCEPT ![t] = "cache"]
    /\ UNCHANGED <<readers, writer, found, error_msg, calls, pm>>
    /\ UNCHANGED deferredVars /\ UNCHANGED workerVars
    /\ UNCHANGED tbbVars
    /\ UNCHANGED offCacheVars

\* PatternCache::releasePattern (both overloads) and the facade's
\* releasePattern with a manager present: refcount.fetch_sub(1), then the
\* caller's handle is gone.  A raw handle whose object has already been
\* destroyed makes the decrement a write to freed memory: it may or may not
\* land.
ReleasePattern(t) ==
    /\ pc[t] = "idle" /\ held[t] # NoInst
    /\ IF Destroyed(held[t])
       THEN \E d \in {0, 1} : refcount' = [refcount EXCEPT ![held[t]] = @ - d]
       ELSE refcount' = [refcount EXCEPT ![held[t]] = @ - 1]
    /\ held' = [held EXCEPT ![t] = NoInst]
    /\ raw' = [raw EXCEPT ![t] = FALSE]
    /\ UNCHANGED <<std_cache, std_total_size_bytes, readers, writer, instKey,
                   numInst, pc, arg, api, found, error_msg, calls, pm>>
    /\ UNCHANGED deferredVars /\ UNCHANGED workerVars
    /\ UNCHANGED tbbVars
    /\ UNCHANGED offCacheVars

\* ------------------------------------------------------------ Deferred Cache
\* DeferredCache::add on map d: emplace keeps an existing entry for the key.
DeferredAdd(d, k, i) ==
    IF d[k].pattern = NoInst
    THEN [d EXCEPT ![k] = [pattern |-> i, age |-> 0,
                           approx_size_bytes |-> ProgramSize(instKey[i])]]
    ELSE d

RECURSIVE DeferredAddAll(_, _, _)
DeferredAddAll(d, K, c) ==
    IF K = {} THEN d
    ELSE LET k == CHOOSE x \in K : TRUE
         IN DeferredAddAll(DeferredAdd(d, k, c[k].pattern), K \ {k}, c)

DeferredBytes(d) ==
    SumOver({k \in Patterns : d[k].pattern # NoInst},
            [k \in Patterns |-> d[k].approx_size_bytes])

\* (mutation) a released entry is not recognised; only the TTL removes it
NeverImmediate(k) == FALSE

\* DeferredCache::evict, first test: the refcount has dropped to 0
ImmediateEvictable(k) == refcount[deferred[k].pattern] = 0

\* (mutation) the Deferred Cache never gives up on a referenced entry
NeverForced(k) == FALSE

\* DeferredCache::evict, second test: now - entered_deferred > TTL
ForcedEvictable(k) == deferred[k].age > deferred_cache_ttl_ms

\* ------------------------------------------------------- Pattern Cache evict
SizeOfKey == [k \in Patterns |-> ProgramSize(k)]

\* TTL test of evictStd: now - last_access > pattern_cache_ttl_ms
TtlExpired(k) == std_cache[k].age > pattern_cache_ttl_ms

\* (mutation) only unreferenced entries are erased; transferred ones stay
EraseUnreferenced(c, K) ==
    [k \in Patterns |->
        IF k \in K /\ refcount[c[k].pattern] = 0 THEN NoEntry ELSE c[k]]

\* std_cache_.erase(it) for every key of K
EraseAll(c, K) == [k \in Patterns |-> IF k \in K THEN NoEntry ELSE c[k]]

\* (mutation) a transferred entry is not counted in total_evictions
TtlCountedDeletedOnly(del, mov) == Cardinality(del)

\* metrics.total_evictions.fetch_add(1) in both branches of the TTL loop
TtlCounted(del, mov) == Cardinality(del) + Cardinality(mov)

\* (mutation) only a deleted entry is taken off the byte counter
TtlFreedDeletedOnly(K) ==
    SumOver({k \in K : refcount[std_cache[k].pattern] = 0}, SizeOfKey)

\* std_total_size_bytes_ -= freed in both branches of the TTL loop: the
\* sizes of the deleted and of the transferred entries.
TtlFreed(K) == SumOver(K, SizeOfKey)

\* The worker reads `now`; evictStd takes the exclusive lock and runs the
\* TTL pass.  An expired
\* entry with refcount 0 is erased, one still referenced is handed to
\* DeferredCache::add (with a local metrics object) and erased.
EvictStdTTL ==
    /\ pcW = "idle"
    /\ writer = None /\ readers = {}
    /\ LET expired == {k \in CachedKeys : TtlExpired(k)}
           del == {k \in expired : refcount[std_cache[k].pattern] = 0}
           mov == expired \ del
           freed == TtlFreed(expired)
           bytes == std_total_size_bytes - freed
           cache == EraseAll(std_cache, expired)
           over == bytes > pattern_cache_target_capacity_bytes
                   /\ \E k \in Patterns : cache[k] # NoEntry
       IN /\ std_cache' = cache
          /\ std_total_size_bytes' = bytes
          /\ deferred' = DeferredAddAll(deferred, mov, std_cache)
          /\ deferred_total_size_bytes' = DeferredBytes(deferred')
          /\ pm' = [pm EXCEPT !.ttl_evictions = @ + Cardinality(del),
                              !.ttl_entries_moved_to_deferred = @ + Cardinality(mov),
                              !.total_evictions = @ + TtlCounted(del, mov),
                              !.total_bytes_freed = @ + freed]
          /\ lastEvict' = {std_cache[k].pattern : k \in mov}
          /\ evictDeleted' = evictDeleted \cup {std_cache[k].pattern : k \in del}
          /\ evicted' = Cardinality(expired)
          /\ IF over
             THEN pcW' = "lru" /\ writer' = Worker
             ELSE pcW' = "deferred" /\ writer' = None
    /\ UNCHANGED <<readers, refcount, instKey, numInst, dm>>
    /\ UNCHANGED callerVars
    /\ UNCHANGED tbbVars
    /\ UNCHANGED offCacheVars

\* (mutation) every entry is eligible for LRU eviction
LruCandidatesAny == CachedKeys

\* Step 1 of the LRU loop: the entries with refcount == 0
LruCandidates == {k \in CachedKeys : refcount[std_cache[k].pattern] = 0}

\* (mutation) the batch is taken in map order, unsorted
LruOrdersUnsorted(C, n) ==
    {o \in [1..n -> C] : \A a, b \in 1..n : a < b => o[a] # o[b]}

\* Step 2: std::partial_sort by last_access puts the batch_size oldest
\* candidates first, in order; ties fall either way.
LruOrders(C, n) ==
    {o \in [1..n -> C] :
        /\ \A a, b \in 1..n : a < b => o[a] # o[b] /\ std_cache[o[a]].age >= std_cache[o[b]].age
        /\ \A k \in C : (\A a \in 1..n : o[a] # k) =>
                          \A a \in 1..n : std_cache[o[a]].age >= std_cache[k].age}

RECURSIVE PrefixBytes(_, _)
PrefixBytes(o, j) == IF j = 0 THEN 0 ELSE ProgramSize(o[j]) + PrefixBytes(o, j - 1)

\* (mutation) the batch is always evicted to its end
LruEvictWholeBatch(o, n) == n

\* Step 3: how many of the batch are evicted: the loop leaves at the first
\* eviction after which the byte counter is back at or under the target.
LruEvictCount(o, n) ==
    LET hit == {j \in 1..n :
                  std_total_size_bytes - PrefixBytes(o, j)
                      <= pattern_cache_target_capacity_bytes}
    IN IF hit = {} THEN n ELSE CHOOSE j \in hit : \A h \in hit : j <= h

\* One iteration of the LRU while loop of evictStd (exclusive lock held),
\* for a cache configured with the given pattern_cache_lru_batch_size.
EvictStdLRUWith(lru_batch_size) ==
    /\ pcW = "lru"
    /\ IF LruCandidates = {}
       THEN /\ pcW' = "deferred" /\ writer' = None
            /\ UNCHANGED <<std_cache, std_total_size_bytes, pm, evictDeleted, evicted>>
       ELSE LET batch_size == Min(lru_batch_size, Cardinality(LruCandidates))
            IN \E o \in LruOrders(LruCandidates, batch_size) :
               LET n == LruEvictCount(o, batch_size)
                   gone == {o[j] : j \in 1..n}
                   freed == PrefixBytes(o, n)
                   bytes == std_total_size_bytes - freed
                   cache == EraseAll(std_cache, gone)
                   again == bytes > pattern_cache_target_capacity_bytes
                            /\ \E k \in Patterns : cache[k] # NoEntry
               IN /\ std_cache' = cache
                  /\ std_total_size_bytes' = bytes
                  /\ pm' = [pm EXCEPT !.lru_evictions = @ + n,
                                      !.lru_evictions_bytes_freed = @ + freed,
                                      !.total_evictions = @ + n,
                                      !.total_bytes_freed = @ + freed]
                  /\ evictDeleted' = evictDeleted \cup {std_cache[k].pattern : k \in gone}
                  /\ evicted' = evicted + n
                  /\ IF again
                     THEN pcW' = "lru" /\ writer' = Worker
                     ELSE pcW' = "deferred" /\ writer' = None
    /\ UNCHANGED <<readers, refcount, instKey, numInst, lastEvict>>
    /\ UNCHANGED deferredVars /\ UNCHANGED callerVars
    /\ UNCHANGED tbbVars
    /\ UNCHANGED offCacheVars

\* The LRU loop of the cache under its configured batch size.
EvictStdLRU == EvictStdLRUWith(pattern_cache_lru_batch_size)

\* DeferredCache::evict(now): one pass over the map under mutex_.
DeferredEvictBody ==
    /\ LET imm == {k \in DeferredKeys : ImmediateEvictable(k)}
           frc == {k \in DeferredKeys \ imm : ForcedEvictable(k)}
           size == [k \in Patterns |-> deferred[k].approx_size_bytes]
       IN /\ deferred' = [k \in Patterns |->
                            IF k \in imm \cup frc THEN NoDeferred ELSE deferred[k]]
          /\ deferred_total_size_bytes' =
                 deferred_total_size_bytes - SumOver(imm \cup frc, size)
          /\ dm' = [dm EXCEPT
                 !.immediate_evictions = @ + Cardinality(imm),
                 !.immediate_evictions_bytes_freed = @ + SumOver(imm, size),
                 !.forced_evictions = @ + Cardinality(frc),
                 !.forced_evictions_bytes_freed = @ + SumOver(frc, size),
                 !.total_evictions = @ + Cardinality(imm \cup frc),
                 !.total_bytes_freed = @ + SumOver(imm \cup frc, size)]
          /\ evicted' = Cardinality(imm \cup frc)
    /\ UNCHANGED <<std_cache, std_total_size_bytes, readers, writer, refcount,
                   instKey, numInst, pm, lastEvict, evictDeleted>>
    /\ UNCHANGED callerVars
    /\ UNCHANGED tbbVars
    /\ UNCHANGED offCacheVars

\* The worker's call, after the Pattern Cache pass.
DeferredEvict ==
    /\ pcW = "deferred"
    /\ DeferredEvictBody
    /\ pcW' = "idle"

\* A call of DeferredCache::evict from another thread: mutex_ is held for
\* the whole body, so it runs between two locked sections of the worker.
DeferredEvictCall ==
    /\ pcW \in {"idle", "deferred"}
    /\ DeferredEvictBody
    /\ pcW' = pcW

\* ------------------------------------------- TBB concurrent_hash_map variant
\* getOrCompileTBB, lookup block, hit: find() hands out a const_accessor on
\* the element; the refcount is incremented and last_access refreshed while
\* the accessor is alive, so the whole block is one step with respect to
\* any erase of that element.
HitTBB(t, k) ==
    /\ pc[t] = "idle" /\ held[t] = NoInst
    /\ calls < MaxCalls
    /\ tbb_cache[k] # NoEntry
    /\ calls' = calls + 1
    /\ refcount' = [refcount EXCEPT ![tbb_cache[k].pattern] = @ + 1]
    /\ tbb_cache' = [tbb_cache EXCEPT ![k].age = 0]
    /\ pm' = [pm EXCEPT !.hits = @ + 1]
    /\ held' = [held EXCEPT ![t] = tbb_cache[k].pattern]
    /\ error_msg' = [error_msg EXCEPT ![t] = ""]
    /\ UNCHANGED <<instKey, numInst, pc, arg, api, found, raw>>
    /\ UNCHANGED <<tbb_total_size_bytes, to_evict, candidates, current_size>>
    /\ UNCHANGED stdVars /\ UNCHANGED deferredVars /\ UNCHANGED workerVars
    /\ UNCHANGED offCacheVars

\* getOrCompileTBB, lookup block, miss: misses++ and on to the compile.
MissTBB(t, k) ==
    /\ pc[t] = "idle" /\ held[t] = NoInst
    /\ calls < MaxCalls
    /\ tbb_cache[k] = NoEntry
    /\ calls' = calls + 1
    /\ arg' = [arg EXCEPT ![t] = k]
    /\ error_msg' = [error_msg EXCEPT ![t] = ""]
    /\ pm' = [pm EXCEPT !.misses = @ + 1]
    /\ pc' = [pc EXCEPT ![t] = "compile"]
    /\ UNCHANGED <<refcount, instKey, numInst, api, found, held, raw>>
    /\ UNCHANGED tbbVars
    /\ UNCHANGED stdVars /\ UNCHANGED deferredVars /\ UNCHANGED workerVars
    /\ UNCHANGED offCacheVars

\* getOrCompileTBB: compilePattern with no accessor held, and the error
\* return.
CompileTBB(t) ==
    /\ pc[t] = "compile"
    /\ IF RegexOk(arg[t])
       THEN /\ pc' = [pc EXCEPT ![t] = "insert"]
            /\ UNCHANGED <<error_msg, pm, arg>>
       ELSE /\ error_msg' = [error_msg EXCEPT ![t] = "error"]
            /\ pm' = [pm EXCEPT !.compilation_errors = @ + 1]
            /\ pc' = [pc EXCEPT ![t] = "idle"]
            /\ arg' = [arg EXCEPT ![t] = BadKey]
    /\ UNCHANGED <<refcount, instKey, numInst, api, found, held, raw, calls>>
    /\ UNCHANGED tbbVars
    /\ UNCHANGED stdVars /\ UNCHANGED deferredVars /\ UNCHANGED workerVars
    /\ UNCHANGED offCacheVars

\* getOrCompileTBB, insert block: insert(acc, key) either creates the
\* element (refcount 1, bytes added) or finds the one another thread
\* inserted, whose refcount is incremented.
InsertTBB(t) ==
    /\ pc[t] = "insert"
    /\ IF tbb_cache[arg[t]] = NoEntry
       THEN LET i == numInst + 1 IN
            /\ numInst' = i
            /\ instKey' = [instKey EXCEPT ![i] = arg[t]]
            /\ refcount' = [refcount EXCEPT ![i] = InitialRefcount]
            /\ tbb_cache' = [tbb_cache EXCEPT ![arg[t]] = [pattern |-> i, age |-> 0]]
            /\ tbb_total_size_bytes' = tbb_total_size_bytes + ProgramSize(arg[t])
            /\ held' = [held EXCEPT ![t] = i]
       ELSE LET i == tbb_cache[arg[t]].pattern IN
            /\ refcount' = [refcount EXCEPT ![i] = @ + 1]
            /\ tbb_cache' = [tbb_cache EXCEPT ![arg[t]].age = 0]
            /\ held' = [held EXCEPT ![t] = i]
            /\ UNCHANGED <<tbb_total_size_bytes, instKey, numInst>>
    /\ pc' = [pc EXCEPT ![t] = "idle"]
    /\ arg' = [arg EXCEPT ![t] = BadKey]
    /\ UNCHANGED <<api, found, raw, error_msg, calls, pm>>
    /\ UNCHANGED <<to_evict, candidates, current_size>>
    /\ UNCHANGED stdVars /\ UNCHANGED deferredVars /\ UNCHANGED workerVars
    /\ UNCHANGED offCacheVars

\* evictTBB, TTL scan: the keys whose age exceeds pattern_cache_ttl_ms are
\* collected; no accessor is kept.
CollectTBB ==
    /\ pcW = "idle"
    /\ to_evict' = {k \in TbbKeys : tbb_cache[k].age > pattern_cache_ttl_ms}
    /\ pcW' = "ttl"
    /\ evicted' = 0
    /\ UNCHANGED <<tbb_cache, tbb_total_size_bytes, candidates, current_size>>
    /\ UNCHANGED <<refcount, instKey, numInst, pm, lastEvict, evictDeleted>>
    /\ UNCHANGED stdVars /\ UNCHANGED deferredVars /\ UNCHANGED callerVars
    /\ UNCHANGED offCacheVars

\* evictTBB, TTL loop body for one collected key: find it again under a
\* write accessor, read the refcount, erase it or hand it to the Deferred
\* Cache and erase it.  The age is not looked at again.
ExpireTBB ==
    /\ pcW = "ttl" /\ to_evict # {}
    /\ \E k \in to_evict :
        /\ to_evict' = to_evict \ {k}
        /\ IF tbb_cache[k] # NoEntry
           THEN LET i == tbb_cache[k].pattern
                    freed == ProgramSize(instKey[i])
                IN /\ tbb_cache' = [tbb_cache EXCEPT ![k] = NoEntry]
                   /\ evicted' = evicted + 1
                   /\ tbb_total_size_bytes' = tbb_total_size_bytes - freed
                   /\ IF refcount[i] = 0
                      THEN /\ pm' = [pm EXCEPT !.ttl_evictions = @ + 1,
                                               !.total_evictions = @ + 1,
                                               !.total_bytes_freed = @ + freed]
                           /\ UNCHANGED <<deferred, deferred_total_size_bytes>>
                      ELSE /\ deferred' = DeferredAdd(deferred, k, i)
                           /\ deferred_total_size_bytes' = DeferredBytes(deferred')
                           /\ pm' = [pm EXCEPT !.ttl_entries_moved_to_deferred = @ + 1,
                                               !.total_evictions = @ + 1,
                                               !.total_bytes_freed = @ + freed]
           ELSE UNCHANGED <<tbb_cache, tbb_total_size_bytes, pm, deferred,
                            deferred_total_size_bytes, evicted>>
    /\ UNCHANGED <<pcW, candidates, current_size, dm>>
    /\ UNCHANGED <<refcount, instKey, numInst, lastEvict, evictDeleted>>
    /\ UNCHANGED stdVars /\ UNCHANGED callerVars
    /\ UNCHANGED offCacheVars

\* evictTBB: the byte counter is loaded once before the LRU loop.
LoadSizeTBB ==
    /\ pcW = "ttl" /\ to_evict = {}
    /\ current_size' = tbb_total_size_bytes
    /\ pcW' = "scan"
    /\ UNCHANGED <<tbb_cache, tbb_total_size_bytes, to_evict, candidates>>
    /\ UNCHANGED <<refcount, instKey, numInst, pm, lastEvict, evictDeleted, evicted>>
    /\ UNCHANGED stdVars /\ UNCHANGED deferredVars /\ UNCHANGED callerVars
    /\ UNCHANGED offCacheVars

\* Step 1 of the LRU loop of evictTBB: the entries with refcount == 0
LruCandidatesTBB == {k \in TbbKeys : refcount[tbb_cache[k].pattern] = 0}

\* Step 2: the batch_size oldest candidates first, in order of last_access
LruOrdersTBB(C, n) ==
    {o \in [1..n -> C] :
        /\ \A a, b \in 1..n : a < b => o[a] # o[b] /\ tbb_cache[o[a]].age >= tbb_cache[o[b]].age
        /\ \A k \in C : (\A a \in 1..n : o[a] # k) =>
                          \A a \in 1..n : tbb_cache[o[a]].age >= tbb_cache[k].age}

\* Head of the LRU while loop of evictTBB with steps 1 and 2: the loop is
\* left when the size is within the target, the map is empty or nothing has
\* refcount 0; otherwise the candidates are collected and sorted.
ScanTBB ==
    /\ pcW = "scan"
    /\ IF /\ current_size > pattern_cache_target_capacity_bytes
          /\ TbbKeys # {}
          /\ LruCandidatesTBB # {}
       THEN LET batch_size == Min(pattern_cache_lru_batch_size,
                                  Cardinality(LruCandidatesTBB))
            IN /\ \E o \in LruOrdersTBB(LruCandidatesTBB, batch_size) :
                     candidates' = o
               /\ pcW' = "batch"
       ELSE /\ candidates' = <<>>
            /\ pcW' = "deferred"
    /\ UNCHANGED <<tbb_cache, tbb_total_size_bytes, to_evict, current_size>>
    /\ UNCHANGED <<refcount, instKey, numInst, pm, lastEvict, evictDeleted, evicted>>
    /\ UNCHANGED stdVars /\ UNCHANGED deferredVars /\ UNCHANGED callerVars
    /\ UNCHANGED offCacheVars

\* Step 3 for one candidate of the batch: find the key under a write
\* accessor and erase it.  The refcount read in step 1 is not read again.
\* After an erase the byte counter is reloaded and the pass ends when it is
\* within the target; a finished batch goes back to the head of the loop.
EraseLruTBB ==
    /\ pcW = "batch" /\ candidates # <<>>
    /\ LET k == Head(candidates)
           rest == Tail(candidates)
       IN IF tbb_cache[k] # NoEntry
          THEN LET freed == ProgramSize(instKey[tbb_cache[k].pattern])
                   bytes == tbb_total_size_bytes - freed
                   reached_capacity == bytes <= pattern_cache_target_capacity_bytes
               IN /\ tbb_cache' = [tbb_cache EXCEPT ![k] = NoEntry]
                  /\ tbb_total_size_bytes' = bytes
                  /\ current_size' = bytes
                  /\ evicted' = evicted + 1
                  /\ pm' = [pm EXCEPT !.lru_evictions = @ + 1,
                                      !.lru_evictions_bytes_freed = @ + freed,
                                      !.total_evictions = @ + 1,
                                      !.total_bytes_freed = @ + freed]
                  /\ candidates' = IF reached_capacity THEN <<>> ELSE rest
                  /\ pcW' = IF reached_capacity THEN "deferred"
                            ELSE IF rest = <<>> THEN "scan" ELSE "batch"
          ELSE /\ candidates' = rest
               /\ pcW' = IF rest = <<>> THEN "scan" ELSE "batch"
               /\ UNCHANGED <<tbb_cache, tbb_total_size_bytes, current_size, pm,
                              evicted>>
    /\ UNCHANGED <<to_evict, refcount, instKey, numInst, lastEvict, evictDeleted>>
    /\ UNCHANGED stdVars /\ UNCHANGED deferredVars /\ UNCHANGED callerVars
    /\ UNCHANGED offCacheVars

\* ------------------------------------------------------------------- clear
\* PatternCache::clear(deferred): referenced entries go to the Deferred
\* Cache, then the map is emptied and the byte counter reset.
PatternCacheClear ==
    /\ writer = None /\ readers = {}
    /\ CachedKeys # {}
    /\ LET inuse == {k \in CachedKeys : refcount[std_cache[k].pattern] # 0}
       IN /\ deferred' = DeferredAddAll(deferred, inuse, std_cache)
          /\ deferred_total_size_bytes' = DeferredBytes(deferred')
    /\ std_cache' = [k \in Patterns |-> NoEntry]
    /\ std_total_size_bytes' = 0
    /\ UNCHANGED <<readers, writer, refcount, instKey, numInst, pm, dm>>
    /\ UNCHANGED workerVars /\ UNCHANGED callerVars
    /\ UNCHANGED tbbVars
    /\ UNCHANGED offCacheVars

\* (mutation) deferred_cache_.clear() leaves the map as it is
DeferredClearSkipped(d) == d

\* DeferredCache::clear: cache_.clear()
DeferredClear(d) == [k \in Patterns |-> NoDeferred]

\* The three clears of clearAllCaches, made once stopEvictionThread() has
\* returned (no pass is in progress): PatternCache::clear hands the entries
\* still referenced to the Deferred Cache and empties the map,
\* ResultCache::clear empties its map, DeferredCache::clear empties what the
\* first clear put there.  Each zeroes its byte total; none touches a counter.
ClearCaches ==
    /\ pcW = "idle" /\ pcR = "idle"
    /\ writer = None /\ readers = {}
    /\ LET inuse == {k \in CachedKeys : refcount[std_cache[k].pattern] # 0}
       IN deferred' = DeferredClear(DeferredAddAll(deferred, inuse, std_cache))
    /\ deferred_total_size_bytes' = 0
    /\ std_cache' = [k \in Patterns |-> NoEntry]
    /\ std_total_size_bytes' = 0
    /\ result_entries' = [k \in ResultKeys |-> NoResult]
    /\ result_total_size_bytes' = 0
    /\ UNCHANGED <<readers, writer, refcount, instKey, numInst, pm, dm>>
    /\ UNCHANGED workerVars /\ UNCHANGED callerVars
    /\ UNCHANGED tbbVars
    /\ UNCHANGED <<result_enabled, using_tbb, rm, result_log>>
    /\ UNCHANGED <<pcR, result_to_evict, lru_keys, result_current_size, result_evicted>>
    /\ UNCHANGED keyVars /\ UNCHANGED configVars

\* CacheManager::clearAllCaches as one step: the worker is stopped (joined
\* between passes), the caches are cleared, and the worker is started again.
ClearAllCaches ==
    /\ CachedKeys \cup DeferredKeys # {} \/ ResultPresent # {}
    /\ ClearCaches
    /\ UNCHANGED managerVars

\* -------------------------------------------------------------------- time
\* The steady clock advances by one unit.
Tick ==
    /\ pcW = "idle"
    /\ std_cache' = [k \in Patterns |->
          IF std_cache[k] = NoEntry THEN NoEntry
          ELSE [std_cache[k] EXCEPT !.age = Min(@ + 1, PatternAgeCap)]]
    /\ deferred' = [k \in Patterns |->
          IF deferred[k].pattern = NoInst THEN NoDeferred
          ELSE [deferred[k] EXCEPT !.age = Min(@ + 1, DeferredAgeCap)]]
    /\ tbb_cache' = [k \in Patterns |->
          IF tbb_cache[k] = NoEntry THEN NoEntry
          ELSE [tbb_cache[k] EXCEPT !.age = Min(@ + 1, PatternAgeCap)]]
    /\ UNCHANGED <<std_total_size_bytes, readers, writer, deferred_total_size_bytes,
                   refcount, instKey, numInst, pm, dm, pcW, lastEvict, evictDeleted, evicted,
                   tbb_total_size_bytes, to_evict, candidates, current_size>>
    /\ UNCHANGED callerVars
    /\ UNCHANGED offCacheVars

\* ----------------------------------------------------------- specification
\* Steps of the caches, the worker and the clock, for callers entering
\* through the entry points in A.
Step(A) ==
    \/ \E t \in Threads, k \in Patterns, a \in A : LookupStd(t, k, a)
    \/ \E t \in Threads : HitStd(t)
    \/ \E t \in Threads : CompileStd(t)
    \/ \E t \in Threads : InsertStd(t)
    \/ \E t \in Threads : ReleasePattern(t)
    \/ EvictStdTTL
    \/ EvictStdLRU
    \/ DeferredEvict
    \/ Tick

\* Callers of PatternCache (shared_ptr handles, the manager's metrics).
Next == Step({"cache"}) \/ PatternCacheClear

Spec == Init /\ [][Next]_vars

\* The eviction protocol alone: getOrCompile, release and worker passes.
NextEvict == Step({"cache"})

SpecEvict == Init /\ [][NextEvict]_vars

\* The same with the worker running: every step of a pass is taken once it
\* can be (the lock is granted once it is free), a caller inside the shared
\* lock leaves it, and the clock keeps advancing between passes (the worker
\* sleeps eviction_check_interval_ms after each one).
WorkerFairness ==
    /\ WF_vars(EvictStdTTL)
    /\ WF_vars(EvictStdLRU)
    /\ WF_vars(DeferredEvict)
    /\ \A t \in Threads : WF_vars(HitStd(t))
    /\ SF_vars(Tick)

SpecLive == Init /\ [][NextEvict]_vars /\ WorkerFairness

\* The cache configured with pattern_cache_use_tbb: callers and the worker
\* meet on single elements of the concurrent map.
NextTBB ==
    \/ \E t \in Threads, k \in Patterns : HitTBB(t, k)
    \/ \E t \in Threads, k \in Patterns : MissTBB(t, k)
    \/ \E t \in Threads : CompileTBB(t)
    \/ \E t \in Threads : InsertTBB(t)
    \/ \E t \in Threads : ReleasePattern(t)
    \/ CollectTBB
    \/ ExpireTBB
    \/ LoadSizeTBB
    \/ ScanTBB
    \/ EraseLruTBB
    \/ DeferredEvict
    \/ Tick

SpecTBB == Init /\ [][NextTBB]_vars

\* Callers of the facade (raw pointer handles).
NextFacade == Step({"facade"}) \/ ClearAllCaches

SpecFacade == Init /\ [][NextFacade]_vars

\* ================================================================== claims
Quiescent == \A t \in Threads : pc[t] = "idle"
Holders(i) == {t \in Threads : held[t] = i}
InstsOfKey(k) == {i \in 1..numInst : instKey[i] = k}

\* C1: in the std-map variant no entry is deleted between the lookup that
\* found it and the refcount increment: while a caller sits between find
\* and fetch_add the entry it found is still in the map and nobody holds the
\* exclusive lock; evict erases (without transfer) only entries whose
\* refcount it read as 0, so no caller holds, or is about to get, a pattern
\* that evict has deleted.
C1_NoDeleteBetweenLookupAndIncrement ==
    /\ \A t \in Threads :
          pc[t] = "found" =>
              /\ writer = None
              /\ std_cache[arg[t]].pattern = found[t]
              /\ found[t] \notin evictDeleted
    /\ \A t \in Threads : held[t] # NoInst => held[t] \notin evictDeleted
    /\ \A i \in evictDeleted : refcount[i] = 0

\* C1 witness: a caller is between find and fetch_add on an entry that is
\* expired and unreferenced (evict would delete it if it could get the
\* lock), and evict has deleted some other entry before.
C1_Witness ==
    \E t \in Threads :
        /\ pc[t] = "found"
        /\ TtlExpired(arg[t])
        /\ refcount[found[t]] = 0
        /\ evictDeleted # {}

\* C2 (as claimed): an object whose refcount is greater than 0 is still
\* allocated.
C2_AllocatedWhileReferenced ==
    \A i \in 1..numInst : refcount[i] # 0 => Allocated(i)

\* No Pattern Cache evict pass has removed anything so far.
NoRemoval == pm.total_evictions = 0

\* C3: with no eviction from the Pattern Cache so far, every fingerprint has
\* exactly one inserted object, every caller that asked for it holds that
\* object, and once all callers have returned and all of them hold it, its
\* refcount is the number of callers.
C3_RaceOnSamePattern ==
    NoRemoval =>
        /\ \A k \in Keys : Cardinality(InstsOfKey(k)) <= 1
        /\ \A t \in Threads :
              held[t] # NoInst => std_cache[instKey[held[t]]].pattern = held[t]
        /\ \A i \in 1..numInst :
              (Quiescent /\ Holders(i) = Threads) => refcount[i] = NumThreads

\* C3 witness: every caller missed and compiled (nobody hit), all have
\* returned, and all hold the one object with refcount NumThreads.
C3_Witness ==
    /\ NoRemoval /\ Quiescent
    /\ pm.hits = 0 /\ pm.misses = NumThreads
    /\ numInst = 1
    /\ Holders(1) = Threads /\ refcount[1] = NumThreads

\* C4 (as claimed): when a Pattern Cache evict pass completes, every object
\* it removed while referenced is in the Deferred Cache.
C4_RemovedReferencedIsDeferred ==
    pcW \in {"lru", "deferred"} => \A i \in lastEvict : InDeferredCache(i)

\* C5: no object is resident in both the Pattern Cache and the Deferred
\* Cache.
C5_NotInBothCaches ==
    \A i \in 1..numInst : ~(InPatternCache(i) /\ InDeferredCache(i))

\* C5 witness: an evict pass has just transferred a referenced object, and
\* the Pattern Cache holds another object at the same time.
C5_Witness ==
    /\ pcW = "deferred"
    /\ \E i \in lastEvict : InDeferredCache(i)
    /\ CachedKeys # {}

\* C6: at a quiescent point the refcount of every live object is the number
\* of handles callers hold on it (acquisitions minus releases); the cache
\* slots add nothing.
C6_RefcountIsCallerHandles ==
    Quiescent => \A i \in 1..numInst :
                     Allocated(i) => refcount[i] = Cardinality(Holders(i))

\* C6 witness: a fully released object (refcount 0) still in the Pattern
\* Cache, beside one in the Deferred Cache that a caller holds.
C6_Witness ==
    /\ Quiescent
    /\ \E i \in 1..numInst : InPatternCache(i) /\ refcount[i] = 0
    /\ \E i \in 1..numInst : InDeferredCache(i) /\ refcount[i] = 1

\* C7: with the worker running, every entry of the Deferred Cache is
\* eventually removed from it, released or not, and a Deferred Cache pass
\* leaves behind no entry older than deferred_cache_ttl_ms.
C7_DeferredEntryEventuallyRemoved ==
    /\ \A k \in Keys :
           (deferred[k].pattern # NoInst) ~> (deferred[k].pattern = NoInst)
    /\ [][DeferredEvict =>
             \A k \in Keys : deferred'[k].pattern # NoInst =>
                               deferred'[k].age <= deferred_cache_ttl_ms]_vars

\* C7 witness: a Deferred Cache pass has force-evicted an entry that is
\* still held (its refcount never reached 0).
C7_Witness ==
    /\ dm.forced_evictions > 0
    /\ \E t \in Threads : held[t] # NoInst /\ refcount[held[t]] > 0
                            /\ ~InDeferredCache(held[t]) /\ ~InPatternCache(held[t])

\* C8: in the TBB variant the LRU phase erases an entry only if its
\* refcount is 0 at the moment of the erase.
C8_LruErasesOnlyUnreferenced ==
    [][\A k \in Patterns :
          (pcW = "batch" /\ tbb_cache[k] # NoEntry /\ tbb_cache'[k] = NoEntry)
              => refcount[tbb_cache[k].pattern] = 0]_vars

\* C9: two option objects that differ in a flag, the encoding or max_mem
\* get different keys for the same pattern text.
OptionsDiffer(a, b) ==
    a.flags # b.flags \/ a.utf8 # b.utf8 \/ a.max_mem # b.max_mem

C9_DifferentOptionsDifferentKeys ==
    (key[1].made /\ key[2].made /\ OptionsDiffer(options[1], options[2]))
        => key[1].bits # key[2].bits

\* C10: a failed compile returns no pattern and a non-empty message, adds
\* one to compilation_errors (the miss was counted, once, when the lookup
\* failed), leaves the map and the byte counter as they were, and is never
\* cached.
C10_CompileFailure ==
    /\ [](std_cache[BadKey] = NoEntry)
    /\ [][\A t \in Threads :
            /\ (pc[t] = "idle" /\ pc'[t] = "compile") =>
                   /\ pm'.misses = pm.misses + 1
                   /\ pm'.compilation_errors = pm.compilation_errors
            /\ (pc[t] = "compile" /\ ~RegexOk(arg[t]) /\ pc'[t] = "idle") =>
                   /\ held'[t] = NoInst
                   /\ error_msg'[t] # ""
                   /\ pm'.compilation_errors = pm.compilation_errors + 1
                   /\ pm'.misses = pm.misses
                   /\ pm'.hits = pm.hits
                   /\ std_cache' = std_cache
                   /\ std_total_size_bytes' = std_total_size_bytes]_vars

\* C10 witness: the same rejected text has been compiled twice (two misses,
\* two errors) and the caller is back with the message and no pattern.
C10_Witness ==
    \E t \in Threads :
        /\ pc[t] = "idle" /\ held[t] = NoInst /\ error_msg[t] # ""
        /\ pm.compilation_errors = 2 /\ pm.misses = 2
        /\ CachedKeys = {} /\ std_total_size_bytes = 0

\* C11 (as claimed): the TTL phase of a Pattern Cache evict pass removes
\* exactly the entries older than pattern_cache_ttl_ms (one exactly at the
\* TTL stays); an expired entry with refcount 0 is deleted and counted in
\* ttl_evictions, an expired entry still referenced is in the Deferred Cache
\* afterwards and counted in ttl_entries_moved_to_deferred, and every other
\* entry is untouched.
C11_TtlPhaseExact ==
    [][(pcW = "idle" /\ pcW' \in {"lru", "deferred"}) =>
        LET expired == {k \in CachedKeys : std_cache[k].age > pattern_cache_ttl_ms}
            del == {k \in expired : refcount[std_cache[k].pattern] = 0}
            mov == expired \ del
        IN /\ \A k \in Patterns :
                 std_cache'[k] = IF k \in expired THEN NoEntry ELSE std_cache[k]
           /\ \A k \in del : deferred'[k].pattern # std_cache[k].pattern
           /\ \A k \in mov : deferred'[k].pattern = std_cache[k].pattern
           /\ pm'.ttl_evictions = pm.ttl_evictions + Cardinality(del)
           /\ pm'.ttl_entries_moved_to_deferred =
                  pm.ttl_entries_moved_to_deferred + Cardinality(mov)]_vars

\* A step of the LRU loop of evictStd: it either evicts or leaves the loop.
LruStep == pcW = "lru" /\ (pcW' # "lru" \/ evicted' # evicted)

\* Over the target, nothing expired, every entry referenced.
OverCapacityAllReferenced ==
    /\ std_total_size_bytes > pattern_cache_target_capacity_bytes
    /\ CachedKeys # {}
    /\ \A k \in CachedKeys : /\ refcount[std_cache[k].pattern] > 0
                             /\ std_cache[k].age <= pattern_cache_ttl_ms

C13_LruStopsAtTarget ==
    /\ [][(pcW = "idle" /\ pcW' = "lru") =>
            std_total_size_bytes' > pattern_cache_target_capacity_bytes]_vars
    /\ [][(LruStep /\ evicted' # evicted) =>
            LET gone == {k \in CachedKeys : std_cache'[k] = NoEntry}
            IN /\ std_total_size_bytes > pattern_cache_target_capacity_bytes
               /\ Cardinality(gone) = evicted' - evicted
               /\ \E e \in gone :
                     /\ \A g \in gone : std_cache[e].age <= std_cache[g].age
                     /\ std_total_size_bytes' + ProgramSize(e)
                            > pattern_cache_target_capacity_bytes]_vars
    /\ [][(pcW \in {"idle", "lru"} /\ pcW' = "deferred"
             /\ \A k \in CachedKeys : refcount[std_cache[k].pattern] = 0) =>
            std_total_size_bytes' <= pattern_cache_target_capacity_bytes]_vars

\* C13 witness: a pass stopped inside its batch: one LRU eviction brought
\* the counter to the target and the other unreferenced entry was kept.
C13_Witness ==
    /\ pcW = "deferred" /\ evicted = 1
    /\ pm.lru_evictions = 1 /\ pm.total_evictions = 1
    /\ std_total_size_bytes <= pattern_cache_target_capacity_bytes
    /\ \E k \in CachedKeys : refcount[std_cache[k].pattern] = 0
    /\ \A t \in Threads : held[t] = NoInst /\ pc[t] = "idle"
    /\ pm.hits = 0 /\ calls = NumKeys

\* C14: a Deferred Cache pass removes an entry with refcount 0 as an
\* immediate eviction whatever its age, removes a referenced entry older
\* than deferred_cache_ttl_ms as a forced eviction, keeps every other entry
\* as it is, counts each kind with its bytes, and returns the number removed.
C14_DeferredEvictDecisions ==
    [][(pcW = "deferred" /\ pcW' = "idle") =>
        LET imm == {k \in DeferredKeys : refcount[deferred[k].pattern] = 0}
            frc == {k \in DeferredKeys \ imm :
                        deferred[k].age > deferred_cache_ttl_ms}
            size == [k \in Patterns |-> deferred[k].approx_size_bytes]
        IN /\ \A k \in Patterns :
                 deferred'[k] = IF k \in imm \cup frc THEN NoDeferred ELSE deferred[k]
           /\ dm'.immediate_evictions = dm.immediate_evictions + Cardinality(imm)
           /\ dm'.immediate_evictions_bytes_freed =
                  dm.immediate_evictions_bytes_freed + SumOver(imm, size)
           /\ dm'.forced_evictions = dm.forced_evictions + Cardinality(frc)
           /\ dm'.forced_evictions_bytes_freed =
                  dm.forced_evictions_bytes_freed + SumOver(frc, size)
           /\ evicted' = Cardinality(imm) + Cardinality(frc)]_vars

\* C14 witness: one pass made both decisions: a released entry went as an
\* immediate eviction and a held one as a forced eviction.
C14_Witness ==
    /\ pcW = "idle" /\ evicted = 2
    /\ dm.immediate_evictions = 1 /\ dm.forced_evictions = 1
    /\ dm.total_evictions = 2
    /\ DeferredKeys = {}

\* ------------------------------------------------------------ configuration
\* A step of fromJson, and what the document says for a field (the default
\* when the key is absent).
FromJsonStep == cfg_stage \in {"document", "serialized"} /\ cfg_stage' \notin {"document", "serialized"}
DocNumber(f) == IF f \in json_doc.keys THEN json_doc.val[f] ELSE JsonNumber(DefaultConfig[f], TRUE)
DocBool(f) == IF f \in json_doc.keys THEN json_doc.val[f] ELSE DefaultConfig[f]
DocPositive(f) == IF DocNumber(f).u THEN DocNumber(f).w # Zero64 ELSE SLess(Zero64, DocNumber(f).w)

\* C15: every record a successful fromJson returns has deferred_cache_ttl_ms
\* strictly greater than pattern_cache_ttl_ms, and a document whose deferred
\* TTL is equal to or shorter than its pattern TTL is rejected.
C15_DeferredTtlLonger ==
    [][FromJsonStep =>
        /\ cfg_error' = "" =>
             SLess(config'["pattern_cache_ttl_ms"], config'["deferred_cache_ttl_ms"])
        /\ SLessEq(DocNumber("deferred_cache_ttl_ms").w, DocNumber("pattern_cache_ttl_ms").w) =>
             cfg_error' # ""]_vars

\* The quantities C16 lists: the two target capacities, the three TTLs, the
\* eviction interval and the LRU batch size.
PositiveFields == (SizeFields \cup MsFields) \ {"pattern_result_cache_string_threshold_bytes"}

\* C16: with cache_enabled true, fromJson returns only for a document in which
\* every capacity, every TTL, the eviction interval and the LRU batch size is
\* strictly positive; with cache_enabled false it raises no validation error.
C16_PositiveWhenEnabled ==
    [][FromJsonStep =>
        /\ (DocBool("cache_enabled") /\ cfg_error' = "") =>
             \A f \in PositiveFields : DocPositive(f)
        /\ ~DocBool("cache_enabled") => cfg_error' = ""]_vars

\* C17: for every record c that validate() accepts, fromJson(c.toJson())
\* returns a record equal to c in every field.
C17_RoundTrip ==
    (cfg_stage = "reparsed" /\ validate(config_src) = "") =>
        (cfg_error = "" /\ config = config_src)

\* ------------------------------------------------------------ result cache
\* The call a step makes (the one it appends to the log), and the calls
\* logged so far.
ResultCall == result_log'[Len(result_log')]
ResultCallStep == Len(result_log') = Len(result_log) + 1
Calls == 1..Len(result_log)
SamePair(c, d) == c.pattern_hash = d.pattern_hash /\ c.input_string = d.input_string
Cached(c) == c.op = "put" /\ Len(c.input_string) <= pattern_result_cache_string_threshold_bytes
Returned(v) == IF v THEN "true" ELSE "false"
CachedPairs == {<<result_log[i].pattern_hash, result_log[i].input_string>> :
                    i \in {n \in Calls : Cached(result_log[n])}}

\* C18: in an enabled Result Cache with no eviction so far, a get returns the
\* value of the last put made on the same (fp, s) within the threshold, and
\* there is one entry of RESULT_CACHE_ENTRY_SIZE bytes per pair put, however
\* often it was put; a put on a key already present stores its value and
\* leaves the entry count and the byte counter as they were; between puts
\* on its key and evictions a stored value does not change.
C18_PutThenGet ==
    /\ []((result_enabled /\ rm.total_evictions = 0) =>
            /\ \A n \in Calls :
                 LET puts == {i \in 1..(n - 1) : Cached(result_log[i])
                                                  /\ SamePair(result_log[i], result_log[n])}
                 IN (result_log[n].op = "get" /\ puts # {}) =>
                      \E i \in puts :
                         /\ \A m \in puts : m <= i
                         /\ result_log[n].ret = Returned(result_log[i].match_result)
            /\ Cardinality(ResultPresent) = Cardinality(CachedPairs)
            /\ result_total_size_bytes = RESULT_CACHE_ENTRY_SIZE * Cardinality(CachedPairs))
    /\ [][(result_enabled /\ ResultCallStep /\ Cached(ResultCall)) =>
            LET k == ResultKeyOf[ResultCall.pattern_hash, ResultCall.input_string]
            IN /\ result_entries'[k].present
               /\ result_entries'[k].match_result = ResultCall.match_result
               /\ result_entries[k].present =>
                    /\ ResultPresent' = ResultPresent
                    /\ result_total_size_bytes' = result_total_size_bytes]_vars
    /\ [][\A k \in ResultKeys :
            (/\ result_entries[k].present
             /\ rm'.total_evictions = rm.total_evictions
             /\ ~(ResultCallStep /\ Cached(ResultCall)
                  /\ ResultKeyOf[ResultCall.pattern_hash, ResultCall.input_string] = k)) =>
                /\ result_entries'[k].present
                /\ result_entries'[k].match_result = result_entries[k].match_result]_vars

\* put(fp, s, true), put(fp, s, false), get(fp, s) has returned false, with
\* one entry in the cache
C18_Witness ==
    /\ result_enabled /\ rm.total_evictions = 0
    /\ Len(result_log) = 3
    /\ Cached(result_log[1]) /\ result_log[1].match_result
    /\ Cached(result_log[2]) /\ ~result_log[2].match_result
    /\ SamePair(result_log[1], result_log[2]) /\ SamePair(result_log[2], result_log[3])
    /\ result_log[3].op = "get" /\ result_log[3].ret = "false"
    /\ Cardinality(ResultPresent) = 1
    /\ result_total_size_bytes = RESULT_CACHE_ENTRY_SIZE
    /\ rm.inserts = 1 /\ rm.updates = 1 /\ rm.result_flips = 1

\* C19: a put whose input is longer than
\* pattern_result_cache_string_threshold_bytes leaves the entries, the byte
\* total and every counter as they were; a put in an enabled cache whose
\* input is exactly as long as the threshold leaves an entry for its key
\* holding its value.
C19_ThresholdBoundary ==
    [][(ResultCallStep /\ ResultCall.op = "put") =>
        /\ Len(ResultCall.input_string) > pattern_result_cache_string_threshold_bytes =>
             UNCHANGED <<result_entries, result_total_size_bytes, rm>>
        /\ (result_enabled
            /\ Len(ResultCall.input_string) = pattern_result_cache_string_threshold_bytes) =>
             LET k == ResultKeyOf[ResultCall.pattern_hash, ResultCall.input_string]
             IN /\ result_entries'[k].present
                /\ result_entries'[k].match_result = ResultCall.match_result
                /\ ~result_entries[k].present =>
                     /\ result_total_size_bytes' = result_total_size_bytes + RESULT_CACHE_ENTRY_SIZE
                     /\ rm'.inserts = rm.inserts + 1]_vars

\* an input at the threshold was put and is cached, then a longer one was put
C19_Witness ==
    /\ result_enabled /\ rm.total_evictions = 0
    /\ Len(result_log) = 2
    /\ result_log[1].op = "put"
    /\ Len(result_log[1].input_string) = pattern_result_cache_string_threshold_bytes
    /\ result_log[2].op = "put"
    /\ Len(result_log[2].input_string) > pattern_result_cache_string_threshold_bytes
    /\ ResultPresent = {ResultKeyOf[result_log[1].pattern_hash, result_log[1].input_string]}
    /\ result_total_size_bytes = RESULT_CACHE_ENTRY_SIZE
    /\ rm.inserts = 1

\* C20: with pattern_result_cache_enabled false every get has returned no
\* value, the cache is empty, its byte counter is 0 and no counter has moved,
\* whatever calls were made.
C20_DisabledCache ==
    ~result_enabled =>
        /\ \A n \in Calls : result_log[n].op = "get" => result_log[n].ret = "nullopt"
        /\ ResultPresent = {}
        /\ result_total_size_bytes = 0
        /\ rm = RMInit

\* a disabled cache after put(fp, s, v), get(fp, s) with s within the threshold
C20_Witness ==
    /\ ~result_enabled
    /\ Len(result_log) >= 2
    /\ Cached(result_log[1])
    /\ result_log[2].op = "get" /\ SamePair(result_log[1], result_log[2])
    /\ result_log[2].ret = "nullopt"

\* C30: under getOrCompile, releasePattern and worker passes alone, the TTL
\* phase of PatternCache::evict never hands DeferredCache::add a fingerprint
\* the Deferred Cache already holds.
C30_NoDuplicateAdd ==
    [][(pcW = "idle" /\ pcW' \in {"lru", "deferred"}) =>
        \A k \in CachedKeys :
            (std_cache[k].age > pattern_cache_ttl_ms /\ refcount[std_cache[k].pattern] > 0) =>
                deferred[k].pattern = NoInst]_vars

Returning(t) == pc[t] = "found"
CallStart(t) == pc[t] = "idle" /\ pc'[t] # "idle"

\* C28: every getOrCompile call adds one to exactly one of hits and misses:
\* a call that finds the fingerprint in the cache (as the second of two
\* sequential calls does) counts one hit and no miss when it returns, every
\* other call counts one miss when it leaves the lookup and nothing more,
\* also when it loses the insert race and takes the winner's entry; so once
\* the calls have returned hits + misses is the number of calls.
C28_HitsPlusMisses ==
    /\ [](pm.hits + pm.misses =
            calls - Cardinality({t \in Threads : Returning(t)}))
    /\ [][\A t \in Threads : CallStart(t) =>
            IF std_cache[arg'[t]] # NoEntry
            THEN pc'[t] = "found" /\ pm' = pm
            ELSE pm'.misses = pm.misses + 1 /\ pm'.hits = pm.hits]_vars
    /\ [][\A t \in Threads : (Returning(t) /\ pc'[t] = "idle") =>
            pm'.hits = pm.hits + 1 /\ pm'.misses = pm.misses]_vars

\* C28 witness: two callers raced on one pattern, both missed and the loser
\* took the winner's entry; a later call for it hit.
C28_Witness ==
    /\ Quiescent /\ calls = 3 /\ numInst = 1
    /\ pm.compilation_errors = 0
    /\ pm.misses = 2 /\ pm.hits = 1
    /\ \A t \in Threads : held[t] = 1

Compiling(t) == pc[t] = "compile"
OthersOutside(t) ==
    /\ pcW = "idle" /\ writer = None
    /\ \A u \in Threads \ {t} : pc[u] = "idle" /\ held[u] = NoInst
LocksFree == writer = None /\ readers = {}

\* C29: a caller inside the compile step holds the cache lock in neither
\* mode; with the other callers and the worker outside the cache, the lock
\* is free, so that another caller's lookup of a cached fingerprint can go
\* through to its hit and a worker pass can take the exclusive lock.
C29_CompileWithoutLock ==
    \A t \in Threads : Compiling(t) =>
        /\ t \notin readers /\ writer # t
        /\ OthersOutside(t) =>
              /\ LocksFree
              /\ ENABLED EvictStdTTL
              /\ calls < MaxCalls =>
                    \A u \in Threads \ {t}, k \in CachedKeys :
                        ENABLED LookupStd(u, k, "cache")

\* C29 witness: one caller is compiling while another one sits inside the
\* shared lock on its way to a hit.
C29_Witness ==
    \E t, u \in Threads :
        /\ Compiling(t) /\ pc[u] = "found" /\ u \in readers
        /\ std_cache[arg[u]] # NoEntry

\* ------------------------------------------- eviction thread: start and stop
threadVars == <<running_, stop_requested_, thread_, loop, spawned, terminated>>
offLifeVars == <<cacheVars, keyVars, configVars, resultVars, facadeVars>>

\* (mutation) the exchange succeeds whatever running_ holds
CasAlwaysWins(expected) == TRUE

\* running_.compare_exchange_strong(expected, !expected) succeeds
CasWins(expected) == running_ = expected

\* A controller returns from its call.
CallReturns(c) ==
    /\ ctl' = [ctl EXCEPT ![c] = "idle"]
    /\ in_call' = [in_call EXCEPT ![c] = "none"]

\* EvictionThread::start, up to the exchange on running_: a start() on a
\* running loop returns at once.
Start(c) ==
    /\ ctl[c] = "idle" /\ ~terminated
    /\ life_calls < MaxLifeCalls
    /\ life_calls' = life_calls + 1
    /\ IF CasWins(FALSE)
       THEN /\ spawned < MaxWorkers
            /\ running_' = TRUE
            /\ ctl' = [ctl EXCEPT ![c] = "start_flag"]
            /\ in_call' = [in_call EXCEPT ![c] = "start"]
       ELSE UNCHANGED <<running_, ctl, in_call>>
    /\ UNCHANGED <<auto_start, stop_requested_, thread_, loop, spawned,
                   terminated, joining, was_running>>
    /\ UNCHANGED offLifeVars

\* start: stop_requested_.store(false)
StartFlag(c) ==
    /\ ctl[c] = "start_flag" /\ ~terminated
    /\ stop_requested_' = FALSE
    /\ ctl' = [ctl EXCEPT ![c] = "start_spawn"]
    /\ UNCHANGED <<auto_start, running_, thread_, loop, spawned, terminated,
                   in_call, joining, was_running, life_calls>>
    /\ UNCHANGED offLifeVars

\* start: thread_ = std::make_unique<std::thread>(evictionLoop).  The
\* std::thread thread_ pointed to is destroyed by the assignment, and
\* destroying one that is joinable calls std::terminate.
StartSpawn(c) ==
    /\ ctl[c] = "start_spawn" /\ ~terminated
    /\ LET w == spawned + 1
       IN /\ thread_' = w
          /\ loop' = [loop EXCEPT ![w] = "test"]
          /\ spawned' = w
    /\ terminated' = Joinable(thread_)
    /\ CallReturns(c)
    /\ UNCHANGED <<auto_start, running_, stop_requested_, joining,
                   was_running, life_calls>>
    /\ UNCHANGED offLifeVars

\* Where stop() returns to: clearAllCaches goes on with the clears.
AfterStop(c) == IF in_call[c] = "clear" THEN "clear_caches" ELSE "idle"

\* EvictionThread::stop, up to the exchange on running_: a stop() on a
\* loop that is not running returns at once.
Stop(c) ==
    /\ ctl[c] = "idle" /\ ~terminated
    /\ life_calls < MaxLifeCalls
    /\ life_calls' = life_calls + 1
    /\ IF CasWins(TRUE)
       THEN /\ running_' = FALSE
            /\ ctl' = [ctl EXCEPT ![c] = "stop_flag"]
            /\ in_call' = [in_call EXCEPT ![c] = "stop"]
       ELSE UNCHANGED <<running_, ctl, in_call>>
    /\ UNCHANGED <<auto_start, stop_requested_, thread_, loop, spawned,
                   terminated, joining, was_running>>
    /\ UNCHANGED offLifeVars

\* stop: stop_requested_.store(true)
StopFlag(c) ==
    /\ ctl[c] = "stop_flag" /\ ~terminated
    /\ stop_requested_' = TRUE
    /\ ctl' = [ctl EXCEPT ![c] = "stop_join"]
    /\ UNCHANGED <<auto_start, running_, thread_, loop, spawned, terminated,
                   in_call, joining, was_running, life_calls>>
    /\ UNCHANGED offLifeVars

\* stop: if (thread_ && thread_->joinable()) thread_->join() is entered
StopJoin(c) ==
    /\ ctl[c] = "stop_join" /\ ~terminated
    /\ IF Joinable(thread_)
       THEN /\ joining' = [joining EXCEPT ![c] = thread_]
            /\ ctl' = [ctl EXCEPT ![c] = "stop_wait"]
       ELSE /\ ctl' = [ctl EXCEPT ![c] = "stop_reset"]
            /\ UNCHANGED joining
    /\ UNCHANGED <<auto_start, running_, stop_requested_, thread_, loop,
                   spawned, terminated, in_call, was_running, life_calls>>
    /\ UNCHANGED offLifeVars

\* (mutation) join() does not wait for the worker
JoinAtOnce(w) == TRUE

\* join() returns once the thread function has returned
JoinReturns(w) == loop[w] = "done"

\* stop: join() returns
StopWait(c) ==
    /\ ctl[c] = "stop_wait" /\ ~terminated
    /\ JoinReturns(joining[c])
    /\ loop' = [loop EXCEPT ![joining[c]] = IF @ = "done" THEN "joined" ELSE @]
    /\ joining' = [joining EXCEPT ![c] = NoThread]
    /\ ctl' = [ctl EXCEPT ![c] = "stop_reset"]
    /\ UNCHANGED <<auto_start, running_, stop_requested_, thread_, spawned,
                   terminated, in_call, was_running, life_calls>>
    /\ UNCHANGED offLifeVars

\* stop: thread_.reset(), and the return
StopReset(c) ==
    /\ ctl[c] = "stop_reset" /\ ~terminated
    /\ thread_' = NoThread
    /\ terminated' = Joinable(thread_)
    /\ ctl' = [ctl EXCEPT ![c] = AfterStop(c)]
    /\ in_call' = [in_call EXCEPT ![c] = IF in_call[c] = "clear" THEN "clear" ELSE "none"]
    /\ UNCHANGED <<auto_start, running_, stop_requested_, loop, spawned,
                   joining, was_running, life_calls>>
    /\ UNCHANGED offLifeVars

\* ------------------------------------------------------------- evictionLoop
\* while (!stop_requested_.load())
LoopTest(w) ==
    /\ loop[w] = "test" /\ ~terminated
    /\ loop' = [loop EXCEPT ![w] =
                  IF stop_requested_ THEN "exit"
                  ELSE IF result_enabled THEN "result_evict"
                  ELSE "pattern_evict"]
    /\ UNCHANGED <<auto_start, running_, stop_requested_, thread_, spawned,
                   terminated, ctl, in_call, joining, was_running, life_calls>>
    /\ UNCHANGED offLifeVars

\* The calls of one pass, in order.
NextInPass(p) ==
    CASE p = "result_evict" -> "result_snapshot"
      [] p = "result_snapshot" -> "pattern_evict"
      [] p = "pattern_evict" -> "pattern_snapshot"
      [] p = "pattern_snapshot" -> "deferred_evict"
      [] p = "deferred_evict" -> "deferred_snapshot"
      [] p = "deferred_snapshot" -> "sleep"

\* One call of the pass returns and the next is entered; after the last
\* one the worker sleeps.  The caches these workers pass over are the empty
\* ones nobody fills, so evict removes nothing.
LoopPass(w) ==
    /\ InPass(w) /\ ~terminated
    /\ CachedKeys = {} /\ DeferredKeys = {} /\ ResultPresent = {}
    /\ loop' = [loop EXCEPT ![w] = NextInPass(@)]
    /\ UNCHANGED <<auto_start, running_, stop_requested_, thread_, spawned,
                   terminated, ctl, in_call, joining, was_running, life_calls>>
    /\ UNCHANGED offLifeVars

\* std::this_thread::sleep_for(eviction_check_interval_ms) returns
LoopSleep(w) ==
    /\ loop[w] = "sleep" /\ ~terminated
    /\ loop' = [loop EXCEPT ![w] = "test"]
    /\ UNCHANGED <<auto_start, running_, stop_requested_, thread_, spawned,
                   terminated, ctl, in_call, joining, was_running, life_calls>>
    /\ UNCHANGED offLifeVars

\* After the loop: running_.store(false), and the thread function returns.
LoopExit(w) ==
    /\ loop[w] = "exit" /\ ~terminated
    /\ running_' = FALSE
    /\ loop' = [loop EXCEPT ![w] = "done"]
    /\ UNCHANGED <<auto_start, stop_requested_, thread_, spawned,
                   terminated, ctl, in_call, joining, was_running, life_calls>>
    /\ UNCHANGED offLifeVars

WorkerStep ==
    \/ \E w \in WorkerIds : LoopTest(w)
    \/ \E w \in WorkerIds : LoopPass(w)
    \/ \E w \in WorkerIds : LoopSleep(w)
    \/ \E w \in WorkerIds : LoopExit(w)

\* start() and stop() called by the controllers in C, and the workers.
StartStop(C) ==
    \/ \E c \in C : Start(c)
    \/ \E c \in C : StartFlag(c)
    \/ \E c \in C : StartSpawn(c)
    \/ \E c \in C : Stop(c)
    \/ \E c \in C : StopFlag(c)
    \/ \E c \in C : StopJoin(c)
    \/ \E c \in C : StopWait(c)
    \/ \E c \in C : StopReset(c)

\* One thread owns the EvictionThread and makes one call after another.
NextThread == StartStop({1}) \/ WorkerStep

SpecThread == Init /\ [][NextThread]_vars

\* The same with the scheduler running every thread: the worker and the
\* owner take the step they are at (join() returns once the worker is done).
ThreadFairness ==
    /\ WF_vars(WorkerStep)
    /\ WF_vars(\E c \in Controllers : StopFlag(c) \/ StopJoin(c) \/ StopWait(c) \/ StopReset(c))

SpecThreadLive == SpecThread /\ ThreadFairness

\* Several threads call start() and stop() on the same EvictionThread.
NextThreads == StartStop(Controllers) \/ WorkerStep

SpecThreads == Init /\ [][NextThreads]_vars

ControllersIdle == \A c \in Controllers : ctl[c] = "idle"
CallBegins == life_calls' # life_calls
CallEnds(c, o) == in_call[c] = o /\ in_call'[c] = "none"

\* C21: with start() and stop() called one after another, std::terminate is
\* never reached and at most one worker exists; between calls isRunning()
\* is true exactly when a worker exists, and that worker is the one thread_
\* owns; a start() on a running loop and a stop() on a stopped one change
\* nothing; a start() that finds the loop stopped returns with isRunning()
\* true and one new worker, and a stop() that finds it running returns with
\* isRunning() false and no worker.
C21_SequentialStartStop ==
    /\ [](/\ ~terminated
          /\ Cardinality(LiveWorkers) <= 1
          /\ ControllersIdle =>
                /\ isRunning <=> LiveWorkers # {}
                /\ isRunning => LiveWorkers = {thread_}
                /\ ~isRunning => thread_ = NoThread)
    /\ [][(CallBegins /\ ctl' = ctl) => UNCHANGED threadVars]_vars
    /\ [][(CallBegins /\ ctl' # ctl) =>
            IF isRunning
            THEN ~isRunning' /\ \E c \in Controllers : in_call'[c] = "stop"
            ELSE isRunning' /\ \E c \in Controllers : in_call'[c] = "start"]_vars
    /\ [][\A c \in Controllers :
            CallEnds(c, "start") =>
                /\ isRunning'
                /\ spawned' = spawned + 1
                /\ LiveWorkers' = {spawned'}]_vars
    /\ [][\A c \in Controllers :
            CallEnds(c, "stop") => ~isRunning' /\ LiveWorkers' = {}]_vars

\* C21 witness: start(), start(), stop(), start() have returned; the first
\* worker was joined and the second one is running.
C21_Witness ==
    /\ ControllersIdle /\ life_calls = 4
    /\ spawned = 2 /\ loop[1] = "joined" /\ InLoop(2)
    /\ isRunning /\ thread_ = 2

\* C22: with start() and stop() called by several threads at once,
\* std::terminate is never reached, at most one worker exists, and whenever
\* no call is in progress isRunning() is true exactly when a worker exists.
C22_ConcurrentStartStop ==
    /\ ~terminated
    /\ Cardinality(LiveWorkers) <= 1
    /\ ControllersIdle => (isRunning <=> LiveWorkers # {})

Stopping == \E c \in Controllers : in_call[c] = "stop"
NoPass == \A w \in WorkerIds : ~InPass(w) /\ ~InLoop(w)

\* C23: a stop() that found the loop running, with no start() alongside,
\* returns, and when it returns the worker it joined has left its loop and
\* its thread function; from then until the next start() no worker is in a
\* pass or anywhere in the loop.
C23_StopJoinsWorker ==
    /\ Stopping ~> ~Stopping
    /\ [][\A c \in Controllers :
            CallEnds(c, "stop") =>
                /\ NoPass'
                /\ \A w \in 1..spawned : loop'[w] = "joined"]_vars
    /\ []((ControllersIdle /\ ~isRunning) => NoPass)

\* C23 witness: stop() has set stop_requested_ and waits in join() while
\* the worker is still inside a pass.
C23_Witness ==
    \E c \in Controllers :
        /\ in_call[c] = "stop" /\ ctl[c] = "stop_wait"
        /\ InPass(joining[c])

\* ------------------------------------------------------------- CacheManager
\* CacheManager::clearAllCaches, up to the exchange of the stop() it begins
\* with.  was_running keeps what isEvictionThreadRunning() held at the call.
ClearBegin(c) ==
    /\ ctl[c] = "idle" /\ ~terminated
    /\ life_calls < MaxLifeCalls
    /\ life_calls' = life_calls + 1
    /\ was_running' = [was_running EXCEPT ![c] = isRunning]
    /\ in_call' = [in_call EXCEPT ![c] = "clear"]
    /\ IF CasWins(TRUE)
       THEN /\ running_' = FALSE
            /\ ctl' = [ctl EXCEPT ![c] = "stop_flag"]
       ELSE /\ ctl' = [ctl EXCEPT ![c] = "clear_caches"]
            /\ UNCHANGED running_
    /\ UNCHANGED <<auto_start, stop_requested_, thread_, loop, spawned,
                   terminated, joining>>
    /\ UNCHANGED offLifeVars

\* clearAllCaches: pattern_cache_.clear(deferred_cache_),
\* result_cache_.clear(), deferred_cache_.clear()
ManagerClear(c) ==
    /\ ctl[c] = "clear_caches" /\ ~terminated
    /\ ClearCaches
    /\ ctl' = [ctl EXCEPT ![c] = "clear_restart"]
    /\ UNCHANGED <<auto_start, running_, stop_requested_, thread_, loop,
                   spawned, terminated, in_call, joining, was_running,
                   life_calls>>
    /\ UNCHANGED facadeVars

\* clearAllCaches: if (config_.auto_start_eviction_thread)
RestartWanted(c) == auto_start

\* clearAllCaches: the restart, up to the exchange of its start(), or the
\* return without one.
ClearRestart(c) ==
    /\ ctl[c] = "clear_restart" /\ ~terminated
    /\ IF RestartWanted(c) /\ CasWins(FALSE)
       THEN /\ spawned < MaxWorkers
            /\ running_' = TRUE
            /\ ctl' = [ctl EXCEPT ![c] = "start_flag"]
            /\ UNCHANGED in_call
       ELSE /\ CallReturns(c)
            /\ UNCHANGED running_
    /\ UNCHANGED <<auto_start, stop_requested_, thread_, loop, spawned,
                   terminated, joining, was_running, life_calls>>
    /\ UNCHANGED offLifeVars

ClearSteps(C) ==
    \/ \E c \in C : ClearBegin(c)
    \/ \E c \in C : ManagerClear(c)
    \/ \E c \in C : ClearRestart(c)

\* A CacheManager built with either setting of auto_start_eviction_thread.
InitManager ==
    /\ CacheInit
    /\ ConfigInit
    /\ ResultInit
    /\ ManagerInit
    /\ FacadeInit
    /\ result_enabled = TRUE
    /\ using_tbb = FALSE
    /\ pattern_string = "a"
    /\ options = [n \in 1..2 |-> DefaultOptions]
    /\ key = [n \in 1..2 |-> NoKey]

\* One thread owns the manager and calls startEvictionThread,
\* stopEvictionThread and clearAllCaches one after another.
NextManager == StartStop({1}) \/ ClearSteps({1}) \/ WorkerStep

SpecManager == InitManager /\ [][NextManager]_vars

\* C24: when clearAllCaches returns, the eviction loop is running exactly if
\* it was running when clearAllCaches was called.
C24_RestartIffWasRunning ==
    [][\A c \in Controllers :
        CallEnds(c, "clear") =>
            /\ isRunning' <=> was_running[c]
            /\ LiveWorkers' # {} <=> was_running[c]]_vars

\* One thread stores a result, fills the pattern caches of a manager built
\* without auto-start, calls evict itself as time passes, and then calls
\* clearAllCaches; being one thread, it is inside one call at a time.
CallerStep ==
    \/ \E k \in Keys : LookupStd(1, k, "cache")
    \/ HitStd(1)
    \/ CompileStd(1)
    \/ InsertStd(1)
    \/ ReleasePattern(1)
    \/ EvictStdTTL
    \/ EvictStdLRU
    \/ DeferredEvict
    \/ Tick
    \/ result_log = <<>> /\ PutStd({0}, "bb", TRUE)

NextClear ==
    \/ ControllersIdle /\ life_calls = 0 /\ CallerStep
    \/ Quiescent /\ pcW = "idle" /\ (life_calls = 0 \/ ~ControllersIdle) /\ ClearSteps({1})

SpecClear == Init /\ [][NextClear]_vars

ClearStep == \E c \in Controllers : ctl[c] = "clear_caches" /\ ctl'[c] = "clear_restart"

\* C25: the clears of clearAllCaches, made while no caller is inside a
\* cache, leave the Result Cache, the Pattern Cache and the Deferred Cache
\* with no entry and a byte total of 0, whatever the refcounts of the cached
\* patterns, and leave every cumulative counter as it was.
C25_ClearAllEmpties ==
    [][(ClearStep /\ Quiescent) =>
        /\ CachedKeys' = {} /\ std_total_size_bytes' = 0
        /\ DeferredKeys' = {} /\ deferred_total_size_bytes' = 0
        /\ ResultPresent' = {} /\ result_total_size_bytes' = 0
        /\ pm' = pm /\ dm' = dm /\ rm' = rm]_vars

\* C25 witness: the clears have just run on three caches that all held
\* something: a result was stored, one pattern had been moved to the
\* Deferred Cache and was still there, a second one was still in the
\* Pattern Cache, and the caller still holds a reference.
C25_Witness ==
    /\ \E c \in Controllers : ctl[c] = "clear_restart"
    /\ Quiescent
    /\ rm.inserts >= 1
    /\ pm.ttl_entries_moved_to_deferred = 1 /\ dm.total_evictions = 0
    /\ numInst = 2 /\ pm.total_evictions = 1
    /\ held[1] # NoInst /\ refcount[held[1]] > 0
    /\ CachedKeys = {} /\ DeferredKeys = {} /\ ResultPresent = {}

\* ------------------------------------------------ facade: init and shutdown
offFacadeVars == <<cacheVars, keyVars, configVars, resultVars, auto_start,
                   threadVars, joining, was_running, heap>>

Existing(m) == mgr[m] \in {"fresh", "used"}
ManagersMade == Cardinality({m \in ManagerIds : mgr[m] # "none"})
Initialising == {c \in Controllers : in_call[c] = "init"}

\* (mutation) initCache does not take g_init_mutex
InitMutexIgnored == TRUE

\* std::lock_guard<std::mutex> lock(g_init_mutex) is granted
InitMutexFree == g_init_mutex = Unlocked

\* initCache: the lock_guard is taken.
InitCache(c) ==
    /\ ctl[c] = "idle"
    /\ life_calls < MaxLifeCalls
    /\ ManagersMade + Cardinality(Initialising) < MaxManagers
    /\ InitMutexFree
    /\ g_init_mutex' = c
    /\ life_calls' = life_calls + 1
    /\ ctl' = [ctl EXCEPT ![c] = "init_check"]
    /\ in_call' = [in_call EXCEPT ![c] = "init"]
    /\ init_result' = [init_result EXCEPT ![c] = "none"]
    /\ UNCHANGED <<g_cache_manager, mgr, taken>>
    /\ UNCHANGED offFacadeVars

\* initCache: a manager exists already and runtime_error is thrown (the
\* lock_guard is released on the way out), or the call goes on.
InitCheck(c) ==
    /\ ctl[c] = "init_check"
    /\ IF g_cache_manager # NoManager
       THEN /\ init_result' = [init_result EXCEPT ![c] = "already initialized"]
            /\ g_init_mutex' = Unlocked
            /\ CallReturns(c)
       ELSE /\ ctl' = [ctl EXCEPT ![c] = "init_build"]
            /\ UNCHANGED <<init_result, g_init_mutex, in_call>>
    /\ UNCHANGED <<g_cache_manager, mgr, taken, life_calls>>
    /\ UNCHANGED offFacadeVars

\* initCache: the configuration is parsed (fromJson throws on a bad one),
\* a CacheManager is made and stored in g_cache_manager.
InitStore(c, valid) ==
    /\ ctl[c] = "init_build"
    /\ IF valid
       THEN LET new_mgr == ManagersMade + 1
            IN /\ new_mgr \in ManagerIds
               /\ mgr' = [mgr EXCEPT ![new_mgr] = "fresh"]
               /\ g_cache_manager' = new_mgr
               /\ init_result' = [init_result EXCEPT ![c] = "ok"]
       ELSE /\ init_result' = [init_result EXCEPT ![c] = "invalid configuration"]
            /\ UNCHANGED <<mgr, g_cache_manager>>
    /\ g_init_mutex' = Unlocked
    /\ CallReturns(c)
    /\ UNCHANGED <<taken, life_calls>>
    /\ UNCHANGED offFacadeVars

\* A facade call that goes through the manager (compilePattern and the
\* like): g_cache_manager.load(), and the manager's caches get content.
FacadeUse(c) ==
    /\ ctl[c] = "idle"
    /\ g_cache_manager # NoManager
    /\ mgr[g_cache_manager] = "fresh"
    /\ mgr' = [mgr EXCEPT ![g_cache_manager] = "used"]
    /\ UNCHANGED <<g_cache_manager, g_init_mutex, init_result, taken>>
    /\ UNCHANGED <<ctl, in_call, life_calls>>
    /\ UNCHANGED offFacadeVars

\* shutdownCache: g_cache_manager.exchange(nullptr); with no manager there
\* the call returns at once.
ShutdownCache(c) ==
    /\ ctl[c] = "idle"
    /\ life_calls < MaxLifeCalls
    /\ life_calls' = life_calls + 1
    /\ g_cache_manager' = NoManager
    /\ taken' = [taken EXCEPT ![c] = g_cache_manager]
    /\ IF g_cache_manager # NoManager
       THEN /\ ctl' = [ctl EXCEPT ![c] = "shutdown_delete"]
            /\ in_call' = [in_call EXCEPT ![c] = "shutdown"]
       ELSE UNCHANGED <<ctl, in_call>>
    /\ UNCHANGED <<g_init_mutex, mgr, init_result>>
    /\ UNCHANGED offFacadeVars

\* shutdownCache: delete mgr
ShutdownDelete(c) ==
    /\ ctl[c] = "shutdown_delete"
    /\ mgr' = [mgr EXCEPT ![taken[c]] = "deleted"]
    /\ taken' = [taken EXCEPT ![c] = NoManager]
    /\ CallReturns(c)
    /\ UNCHANGED <<g_cache_manager, g_init_mutex, init_result, life_calls>>
    /\ UNCHANGED offFacadeVars

\* Several threads call initCache, shutdownCache and the cached entry
\* points of the facade.
NextInit ==
    \/ \E c \in Controllers : InitCache(c)
    \/ \E c \in Controllers : InitCheck(c)
    \/ \E c \in Controllers, valid \in BOOLEAN : InitStore(c, valid)
    \/ \E c \in Controllers : FacadeUse(c)
    \/ \E c \in Controllers : ShutdownCache(c)
    \/ \E c \in Controllers : ShutdownDelete(c)

SpecInit == Init /\ [][NextInit]_vars

InitEnds(c, r) == CallEnds(c, "init") /\ init_result'[c] = r

\* C26: every manager object that exists is the one g_cache_manager points
\* to or one a shutdownCache in progress has taken out, and a manager in
\* place is never replaced by another; an initCache that fails with
\* "already initialized" found a manager and leaves it, and every manager's
\* caches, as they were; an initCache that succeeds found no manager and
\* installs a new one with fresh caches (so of several calls made while no
\* manager exists one succeeds and the others fail); a shutdownCache that
\* finds no manager changes nothing.
C26_SingleManager ==
    /\ [](/\ \A m \in ManagerIds :
                Existing(m) => (g_cache_manager = m \/ \E c \in Controllers : taken[c] = m)
          /\ isCacheInitialized => Existing(g_cache_manager))
    /\ [][isCacheInitialized => g_cache_manager' \in {g_cache_manager, NoManager}]_vars
    /\ [][\A c \in Controllers :
            InitEnds(c, "already initialized") =>
                /\ isCacheInitialized
                /\ g_cache_manager' = g_cache_manager /\ mgr' = mgr]_vars
    /\ [][\A c \in Controllers :
            InitEnds(c, "ok") =>
                /\ ~isCacheInitialized /\ isCacheInitialized'
                /\ mgr[g_cache_manager'] = "none"
                /\ mgr'[g_cache_manager'] = "fresh"]_vars
    /\ [][(CallBegins /\ ~isCacheInitialized /\ ctl' = ctl) =>
            UNCHANGED <<g_cache_manager, mgr>>]_vars

\* C26 witness: a first manager was installed, used and shut down, a second
\* one was installed by a later initCache, and an initCache made while a
\* manager was in place has failed.
C26_Witness ==
    /\ ControllersIdle
    /\ mgr[1] = "deleted" /\ mgr[2] = "fresh" /\ g_cache_manager = 2
    /\ \E c \in Controllers : init_result[c] = "already initialized"

\* ----------------------------------------------------------- getMetricsJSON
\* The snapshotMetrics calls of getMetricsJSON, in order.
NextSnapshot(p) ==
    CASE p = "snap_result" -> "snap_pattern"
      [] p = "snap_pattern" -> "snap_deferred"
      [] p = "snap_deferred" -> "idle"

\* CacheManager::getMetricsJSON is called and enters
\* result_cache_.snapshotMetrics(metrics_.pattern_result_cache).
GetMetricsJSON(c) ==
    /\ ctl[c] = "idle" /\ ~terminated
    /\ life_calls < MaxLifeCalls
    /\ life_calls' = life_calls + 1
    /\ ctl' = [ctl EXCEPT ![c] = "snap_result"]
    /\ in_call' = [in_call EXCEPT ![c] = "metrics"]
    /\ UNCHANGED <<auto_start, running_, stop_requested_, thread_, loop,
                   spawned, terminated, joining, was_running>>
    /\ UNCHANGED offLifeVars

\* getMetricsJSON: one snapshotMetrics returns and the next is entered;
\* after the last one generated_at is set and toJson() is returned.  Each
\* snapshotMetrics takes its cache's mutex shared at most, which keeps out
\* a writer of the map but not another snapshotMetrics.
MetricsStep(c) ==
    /\ ctl[c] \in {"snap_result", "snap_pattern", "snap_deferred"} /\ ~terminated
    /\ writer = None
    /\ ctl' = [ctl EXCEPT ![c] = NextSnapshot(@)]
    /\ in_call' = [in_call EXCEPT ![c] = IF ctl[c] = "snap_deferred" THEN "none" ELSE @]
    /\ UNCHANGED <<auto_start, running_, stop_requested_, thread_, loop,
                   spawned, terminated, joining, was_running, life_calls>>
    /\ UNCHANGED offLifeVars

\* The records of CacheMetrics that snapshotMetrics fills in.
SnapshotRecords == {"result", "pattern", "deferred"}

\* The threads inside snapshotMetrics for record r, writing its plain
\* (non-atomic) snapshot fields.
SnapshotWriters(r) ==
    {<<"caller", c>> : c \in {c \in Controllers : ctl[c] = "snap_" \o r}}
        \cup {<<"worker", w>> : w \in {w \in WorkerIds : loop[w] = r \o "_snapshot"}}

\* One thread starts and stops the manager's eviction thread while another
\* one calls getMetricsJSON.
NextMetrics ==
    \/ StartStop({1})
    \/ \E c \in {2} : GetMetricsJSON(c)
    \/ \E c \in {2} : MetricsStep(c)
    \/ WorkerStep

SpecMetrics == InitManager /\ [][NextMetrics]_vars

\* C27: no snapshot record of the manager's metrics is being filled in by
\* two threads at once.
C27_SnapshotWritersExclusive ==
    \A r \in SnapshotRecords : Cardinality(SnapshotWriters(r)) <= 1

LruIteration == pcW = "lru"
LruEvicted == CachedKeys \ CachedKeys'

\* C31: every entry an iteration of the LRU phase evicts was accessed no
\* later than every refcount-0 entry the iteration leaves in the cache (the
\* phase holds the exclusive lock throughout, so what one iteration leaves
\* is what the next one chooses from).
C31_LruOldestFirst ==
    [][LruIteration =>
        \A k \in LruEvicted, j \in CachedKeys' :
            refcount[std_cache[j].pattern] = 0 =>
                std_cache[k].age >= std_cache[j].age]_vars

\* C31 witness: the pass in progress evicted one entry through LRU and
\* nothing through TTL, and an unreferenced entry that was in the cache
\* before the pass began is still there.
C31_Witness ==
    /\ pcW = "deferred" /\ evicted = 1
    /\ pm.lru_evictions = 1 /\ pm.total_evictions = 1
    /\ \E k \in CachedKeys :
          refcount[std_cache[k].pattern] = 0 /\ std_cache[k].age >= 1

\* ---------------------------------------------------------------------
\* LRU eviction in a cache configured with a batch size below the number
\* of evictable entries.
\* ---------------------------------------------------------------------

\* pattern_cache_lru_batch_size of the cache of SpecBatch
small_lru_batch_size == 1

NextBatch ==
    \/ \E t \in Threads, k \in Patterns : LookupStd(t, k, "cache")
    \/ \E t \in Threads : HitStd(t)
    \/ \E t \in Threads : CompileStd(t)
    \/ \E t \in Threads : InsertStd(t)
    \/ \E t \in Threads : ReleasePattern(t)
    \/ EvictStdTTL
    \/ EvictStdLRUWith(small_lru_batch_size)
    \/ DeferredEvict
    \/ Tick

SpecBatch == Init /\ [][NextBatch]_vars

\* No pass so far has removed an entry in its TTL phase, so `evicted` counts
\* the LRU removals of the current (or last) pass only.
NoTtlRemoval ==
    pm.ttl_evictions = 0 /\ pm.ttl_entries_moved_to_deferred = 0

\* C32: one evict pass removes at most pattern_cache_lru_batch_size entries
\* through LRU eviction, however far over the target the cache is (stated
\* for the passes whose TTL phase removed nothing, where the pass's return
\* value is its number of LRU removals).
C32_LruAtMostOneBatch ==
    NoTtlRemoval => evicted <= small_lru_batch_size

\* A step of PatternCache::clear (std map): the map goes from non-empty to
\* empty with no worker phase and no eviction counter moving.
PatternCacheCleared ==
    CachedKeys # {} /\ CachedKeys' = {} /\ pcW' = pcW /\ pm' = pm

\* C33: PatternCache::clear(deferred) leaves the Pattern Cache empty with a
\* byte counter of 0; every entry that had refcount > 0 is in the Deferred
\* Cache afterwards, and no entry that had refcount 0 is added to it.
C33_ClearTransfersInUse ==
    [][PatternCacheCleared =>
        /\ std_total_size_bytes' = 0
        /\ \A k \in CachedKeys :
              LET p == std_cache[k].pattern
              IN IF refcount[p] > 0
                 THEN deferred'[k].pattern = p
                 ELSE \A j \in Patterns : deferred'[j].pattern # p]_vars

\* The sum of approx_size_bytes over the entries of the std map.
ResidentBytes ==
    SumOver(CachedKeys, [k \in Patterns |-> ProgramSize(instKey[std_cache[k].pattern])])

\* C34: between Pattern Cache operations (insert on a miss, the loser path of
\* a compile race, TTL delete, TTL transfer, LRU delete, clear) the byte
\* counter equals the sum of approx_size_bytes over the resident entries and
\* is never below 0; a compile discarded by the double-check leaves the map
\* and the counter as they were.
C34_ByteCounterExact ==
    /\ [](std_total_size_bytes = ResidentBytes /\ std_total_size_bytes >= 0)
    /\ [][\A t \in Threads :
            (pc[t] = "insert" /\ pc'[t] = "idle" /\ std_cache[arg[t]] # NoEntry) =>
                /\ std_total_size_bytes' = std_total_size_bytes
                /\ CachedKeys' = CachedKeys
                /\ \A k \in CachedKeys : std_cache'[k].pattern = std_cache[k].pattern]_vars

\* C34 witness: a compile race has been lost (two misses, no hit, both
\* callers hold the one cached object) and the counter is the size of that
\* one entry: the discarded compile added nothing.
C34_Witness ==
    /\ pm.misses >= 2 /\ pm.hits = 0
    /\ \E k \in CachedKeys :
          /\ CachedKeys = {k}
          /\ \A t \in Threads : held[t] = std_cache[k].pattern /\ pc[t] = "idle"
          /\ std_total_size_bytes = ProgramSize(k)

\* C35: in the TBB variant the TTL phase removes or transfers an entry only
\* if, for its last_access at the moment of the removal,
\* now - last_access > pattern_cache_ttl_ms; an entry that a hit refreshed
\* after the expiry scan stays in the Pattern Cache.
C35_TtlErasesOnlyExpiredTBB ==
    [][\A k \in Patterns :
          (pcW = "ttl" /\ tbb_cache[k] # NoEntry /\ tbb_cache'[k] = NoEntry)
              => tbb_cache[k].age > pattern_cache_ttl_ms]_vars

\* C36: getOrCompile never returns a pattern that is in the Deferred Cache,
\* and the refcount of a pattern in the Deferred Cache never goes up: after
\* a transfer a getOrCompile of the same fingerprint compiles and inserts a
\* new object with a refcount of its own.
C36_DeferredNeverReacquired ==
    /\ [][\A i \in 1..numInst :
            InDeferredCache(i) => refcount'[i] <= refcount[i]]_vars
    /\ [][\A t \in Threads :
            (held[t] = NoInst /\ held'[t] # NoInst) =>
                \A k \in Patterns :
                    deferred[k].pattern # held'[t] /\ deferred'[k].pattern # held'[t]]_vars

\* C36 witness: a fingerprint whose first object sits, still held, in the
\* Deferred Cache has been compiled again; the second object is in the
\* Pattern Cache with its own refcount of 1 and its own holder.
C36_Witness ==
    \E k \in Keys, t, u \in Threads :
        /\ deferred[k].pattern # NoInst /\ std_cache[k] # NoEntry
        /\ std_cache[k].pattern # deferred[k].pattern
        /\ held[t] = deferred[k].pattern /\ refcount[held[t]] = 1
        /\ held[u] = std_cache[k].pattern /\ refcount[held[u]] = 1
        /\ pc[t] = "idle" /\ pc[u] = "idle"

\* ---------------------------------------------------------------------
\* The evict calls of the three caches and their counters.  The Result
\* Cache shares no state with the other two; its traffic comes first (two
\* puts and the passes that empty it again), the Pattern Cache's after it.
\* ---------------------------------------------------------------------
PatternCacheUntouched == calls = 0 /\ pcW = "idle" /\ numInst = 0

ResultCacheEmptied ==
    /\ ResultPresent = {} /\ Len(result_log) = 2
    /\ rm.ttl_evictions >= 1 /\ rm.lru_evictions >= 1

NextCounters ==
    \/ ResultCacheEmptied /\ \E k \in Keys : LookupStd(1, k, "cache")
    \/ HitStd(1)
    \/ CompileStd(1)
    \/ InsertStd(1)
    \/ ReleasePattern(1)
    \/ ResultCacheEmptied /\ EvictStdTTL
    \/ EvictStdLRU
    \/ DeferredEvict
    \/ ResultCacheEmptied /\ DeferredEvictCall
    \/ ResultCacheEmptied /\ Tick
    \/ PatternCacheUntouched /\ \E ph \in PatternHashes : PutStd(ph, "bb", TRUE)
    \/ PatternCacheUntouched /\ EvictResultStd
    \/ PatternCacheUntouched /\ ResultTick

SpecCounters == Init /\ [][NextCounters]_vars

PatternRemoved == Cardinality(CachedKeys \ CachedKeys')
DeferredRemoved == Cardinality(DeferredKeys \ DeferredKeys')
ResultRemoved == Cardinality(ResultPresent \ ResultPresent')

\* C37: the eviction counters are consistent whenever no evict call is in
\* the middle of a locked section: Pattern Cache total_evictions = ttl + lru
\* + ttl_moved + lru_moved, Result Cache total_evictions = ttl + lru,
\* Deferred Cache total_evictions = immediate + forced and total_bytes_freed
\* = immediate bytes + forced bytes.  Every evict call returns the number of
\* entries it removed, and with DeferredCache::evict called from two threads
\* each entry that leaves the Deferred Cache is counted once.
C37_EvictionCountersConsistent ==
    /\ [](/\ pm.total_evictions = pm.ttl_evictions + pm.lru_evictions
                + pm.ttl_entries_moved_to_deferred + pm.lru_entries_moved_to_deferred
          /\ rm.total_evictions = rm.ttl_evictions + rm.lru_evictions
          /\ dm.total_evictions = dm.immediate_evictions + dm.forced_evictions
          /\ dm.total_bytes_freed = dm.immediate_evictions_bytes_freed
                                      + dm.forced_evictions_bytes_freed)
    /\ [][/\ pm'.total_evictions - pm.total_evictions = PatternRemoved
          /\ dm'.total_evictions - dm.total_evictions = DeferredRemoved
          /\ rm'.total_evictions - rm.total_evictions = ResultRemoved]_vars
    /\ [][/\ (pcW = "idle" /\ pcW' # "idle") => evicted' = PatternRemoved
          /\ (pcW = "lru") => evicted' = evicted + PatternRemoved
          /\ (DeferredRemoved > 0 \/ (pcW = "deferred" /\ pcW' = "idle"))
                => evicted' = DeferredRemoved
          /\ ResultRemoved > 0 => result_evicted' = ResultRemoved]_vars

\* C37 witness: all three caches have evicted and every call has returned:
\* the Result Cache by TTL and by LRU, the Pattern Cache by TTL transfer and
\* by LRU, the Deferred Cache at least once.
C37_Witness ==
    /\ rm.ttl_evictions >= 1 /\ rm.lru_evictions >= 1
    /\ pm.ttl_entries_moved_to_deferred >= 1 /\ pm.lru_evictions >= 1
    /\ dm.immediate_evictions + dm.forced_evictions >= 1
    /\ pcW = "idle"

\* ---------------------------------------------------------------------
\* Facade handles across initCache and shutdownCache: compilePattern and
\* releasePattern each load g_cache_manager and take the branch it decides.
\* heap[i] is "direct" for an object made by `new` in compilePattern, "freed"
\* once it has been deleted, "freed_twice" if it has been deleted again; an
\* object made inside the cache is owned by the cache's shared_ptr and stays
\* "none" until the cache goes.  A refcount of -1 stands for the 32-bit
\* value 0xFFFFFFFF that fetch_sub leaves when it is applied to 0.
\* ---------------------------------------------------------------------
Freed(i) == heap[i] \in {"freed", "freed_twice"}

\* compilePattern with no manager: RE2 is compiled directly and wrapped in a
\* new RE2Pattern whose refcount stays 0; a bad pattern returns nullptr.
CompileDirect(t, k) ==
    /\ g_cache_manager = NoManager
    /\ pc[t] = "idle" /\ held[t] = NoInst
    /\ calls < MaxCalls
    /\ calls' = calls + 1
    /\ IF RegexOk(k)
       THEN LET i == numInst + 1
            IN /\ numInst' = i
               /\ instKey' = [instKey EXCEPT ![i] = k]
               /\ refcount' = [refcount EXCEPT ![i] = 0]
               /\ heap' = [heap EXCEPT ![i] = "direct"]
               /\ held' = [held EXCEPT ![t] = i]
               /\ raw' = [raw EXCEPT ![t] = TRUE]
               /\ error_msg' = [error_msg EXCEPT ![t] = ""]
       ELSE /\ error_msg' = [error_msg EXCEPT ![t] = "error"]
            /\ UNCHANGED <<numInst, instKey, refcount, heap, held, raw>>
    /\ UNCHANGED <<std_cache, std_total_size_bytes, readers, writer, pc, arg,
                   api, found, pm>>
    /\ UNCHANGED deferredVars /\ UNCHANGED workerVars /\ UNCHANGED tbbVars
    /\ UNCHANGED <<keyVars, configVars, resultVars, lifeVars>>
    /\ UNCHANGED <<g_cache_manager, g_init_mutex, mgr, init_result, taken>>

\* The facade's releasePattern: with no manager `delete pattern`, with one
\* PatternCache::releasePattern(pattern), i.e. refcount.fetch_sub(1).  On an
\* object that is already freed the delete is a second free and the
\* fetch_sub a write to freed memory, which may or may not show.
ReleaseFacade(t) ==
    /\ pc[t] = "idle" /\ held[t] # NoInst
    /\ LET i == held[t]
       IN IF g_cache_manager = NoManager
          THEN /\ heap' = [heap EXCEPT ![i] = IF Freed(i) THEN "freed_twice" ELSE "freed"]
               /\ UNCHANGED refcount
          ELSE /\ IF Freed(i)
                  THEN \E d \in {0, 1} : refcount' = [refcount EXCEPT ![i] = @ - d]
                  ELSE refcount' = [refcount EXCEPT ![i] = @ - 1]
               /\ UNCHANGED heap
    /\ held' = [held EXCEPT ![t] = NoInst]
    /\ raw' = [raw EXCEPT ![t] = FALSE]
    /\ UNCHANGED <<std_cache, std_total_size_bytes, readers, writer, instKey,
                   numInst, pc, arg, api, found, error_msg, calls, pm>>
    /\ UNCHANGED deferredVars /\ UNCHANGED workerVars /\ UNCHANGED tbbVars
    /\ UNCHANGED <<keyVars, configVars, resultVars, lifeVars>>
    /\ UNCHANGED <<g_cache_manager, g_init_mutex, mgr, init_result, taken>>

\* initCache, from the lock_guard to the store of the new manager.
InitCacheDone ==
    /\ g_cache_manager = NoManager
    /\ ManagersMade < MaxManagers
    /\ LET new_mgr == ManagersMade + 1
       IN /\ mgr' = [mgr EXCEPT ![new_mgr] = "used"]
          /\ g_cache_manager' = new_mgr
    /\ UNCHANGED <<g_init_mutex, init_result, taken, heap>>
    /\ UNCHANGED cacheVars
    /\ UNCHANGED <<keyVars, configVars, resultVars, lifeVars>>

\* shutdownCache with no facade call inside the cache: the manager is
\* exchanged out and deleted, and with it the caches and their shared_ptrs;
\* the facade's callers hold raw pointers only, so every object the caches
\* owned is freed.
ShutdownCacheDone ==
    /\ g_cache_manager # NoManager
    /\ \A t \in Threads : pc[t] = "idle"
    /\ g_cache_manager' = NoManager
    /\ mgr' = [mgr EXCEPT ![g_cache_manager] = "deleted"]
    /\ heap' = [i \in Insts |->
                  IF InPatternCache(i) \/ InDeferredCache(i) THEN "freed" ELSE heap[i]]
    /\ std_cache' = [k \in Patterns |-> NoEntry]
    /\ std_total_size_bytes' = 0
    /\ deferred' = [k \in Patterns |-> NoDeferred]
    /\ deferred_total_size_bytes' = 0
    /\ UNCHANGED <<readers, writer, refcount, instKey, numInst, pm, dm>>
    /\ UNCHANGED workerVars /\ UNCHANGED callerVars /\ UNCHANGED tbbVars
    /\ UNCHANGED <<g_init_mutex, init_result, taken>>
    /\ UNCHANGED <<keyVars, configVars, resultVars, lifeVars>>

\* compilePattern with a manager goes through getOrCompile of its cache.
NextHandle ==
    \/ \E t \in Threads, k \in Patterns : CompileDirect(t, k)
    \/ g_cache_manager # NoManager
         /\ \E t \in Threads, k \in Patterns : LookupStd(t, k, "facade")
    \/ \E t \in Threads : HitStd(t)
    \/ \E t \in Threads : CompileStd(t)
    \/ \E t \in Threads : InsertStd(t)
    \/ \E t \in Threads : ReleaseFacade(t)
    \/ InitCacheDone
    \/ ShutdownCacheDone

SpecHandle == Init /\ [][NextHandle]_vars

\* C38: a pattern obtained from the facade's compilePattern and released
\* once through its releasePattern is handled correctly whatever the cache
\* initialisation state at each call: the refcount is never decremented
\* below 0, no object is freed twice or touched after it was freed, and a
\* directly compiled object whose handle has been released has been freed.
C38_HandleAcrossInit ==
    /\ [](\A i \in Insts :
            /\ heap[i] # "freed_twice"
            /\ heap[i] = "direct" => \E t \in Threads : held[t] = i)
    /\ [][\A i \in Insts : refcount'[i] < refcount[i] => refcount[i] > 0]_vars
    /\ [][\A t \in Threads :
            (held[t] # NoInst /\ held'[t] = NoInst) => ~Freed(held[t])]_vars

\* ---------------------------------------------------------------------
\* A PatternOptions record whose public fields are written between calls
\* of hash().
\* ---------------------------------------------------------------------

\* A caller assigns one field of the n-th record (a flag, utf8 or max_mem);
\* the struct has no setter and cached_hash is left as it is.
AssignOption(n) ==
    /\ \E o \in OptionValues :
          /\ \/ o.flags # options[n].flags /\ o.utf8 = options[n].utf8
                   /\ o.max_mem = options[n].max_mem
             \/ o.flags = options[n].flags /\ o.utf8 # options[n].utf8
                   /\ o.max_mem = options[n].max_mem
             \/ o.flags = options[n].flags /\ o.utf8 = options[n].utf8
                   /\ o.max_mem # options[n].max_mem
          /\ options' = [options EXCEPT
                            ![n] = [o EXCEPT !.cached_hash = options[n].cached_hash]]
    /\ UNCHANGED <<pattern_string, key>>
    /\ UNCHANGED cacheVars /\ UNCHANGED managerVars /\ UNCHANGED configVars /\ UNCHANGED resultVars

\* The first record is filled in by a caller, then hashed and assigned to;
\* the second stays as constructed.
InitOptions ==
    /\ KeyInit
    /\ pattern_string = "a"
    /\ options[2] = DefaultOptions

NextOptions ==
    \/ Hash(1)
    \/ AssignOption(1)

SpecOptions == InitOptions /\ [][NextOptions]_vars

\* C39: whatever fields have been assigned and however often hash() has been
\* called, hash() is not 0 and equals the fingerprint computeHash() gives
\* for the record's current field values.
C39_HashIsCurrentFingerprint ==
    /\ hash(options[1]) # {}
    /\ hash(options[1]) = computeHash(options[1])
====
